---- MODULE Spec2Model ----
(***************************************************************************)
(* Phone verification service: the verification-code lifecycle of the User *)
(* model (generateVerificationCode, verifyCode, canRequestVerificationCode)*)
(* and the request-code / confirm-code handlers of the auth controller      *)
(* working against the users collection.                                    *)
(*                                                                          *)
(* Ten specifications share the module:                                     *)
(*   SpecUser  one in-memory User document, the three instance methods      *)
(*             called in any order at any clock value;                      *)
(*   Spec      the users collection, the handlers (each run to completion), *)
(*             the clock and the store's expire-after index.                *)
(*   SpecRandom generateVerificationCode over a larger sample of the        *)
(*             random source;                                               *)
(*   SpecSteps register, request-code and confirm-code calls in flight      *)
(*             together, one step per await;                                *)
(*   SpecAuth  the handlers that sign credentials (register, login,         *)
(*             confirm-code, refresh-token) and the clients that hold them; *)
(*   SpecGate  the routes behind authenticateToken and the middleware       *)
(*             around them, with credentials presented over their lifetime; *)
(*   SpecLimiter the per-caller limiter built by validateRateLimit;         *)
(*   SpecAccounts the calls of SpecAuth on accounts that may be disabled;   *)
(*   SpecCalls request-code and confirm-code calls step by step, with the   *)
(*             clock and the sweep;                                         *)
(*   SpecThrottle request-code and confirm-code calls one after another,    *)
(*             with the times at which codes were sent.                     *)
(* Times are milliseconds, as Date.now() gives them.                        *)
(***************************************************************************)
EXTENDS Integers, Sequences, FiniteSets, TLC

VARIABLES
    now,            \* the clock, Date.now()
    user,           \* SpecUser: the in-memory User document
    call,           \* SpecUser: the latest method call (name, argument, result)
    prev,           \* SpecUser: the method call before the latest one
    users,          \* Spec: the users collection (a set of stored documents)
    nextId,         \* Spec: the next _id the collection hands out
    twilioClient,   \* Spec: TRUE when the Twilio client was initialised
    response,       \* Spec: what the latest handler answered and did
    gens,           \* Spec: per phone number, the run of code generations
                    \*       since the program last reset the counter
    tokens,         \* SpecAuth: the credentials clients hold
    procs,          \* SpecSteps: the handler calls in flight
    requests,       \* SpecLimiter: the limiter's Map, caller key to entry
    served,         \* SpecLimiter: per caller key, the window its requests
                    \*       fall in and how many of them were admitted,
                    \*       and the limiter's latest answer
    sent            \* SpecThrottle: per phone number, the times of the
                    \*       latest codes generated and sent, oldest first

vars == <<now, user, call, prev, users, nextId, twilioClient, response, gens,
          tokens, procs, requests, served, sent>>

----------------------------------------------------------------------------
(* Bounds of the model *)

MaxTime == 900001           \* the clock stops here
MaxId == 2                  \* at most this many documents are ever inserted
MaxCalls == 6               \* SpecUser: verificationAttempts is capped here
MaxProcs == 2               \* SpecSteps: handler calls that run concurrently
MaxGateTime == 604800000    \* SpecGate: the clock stops here
MaxLimiterTime == 1800002   \* SpecLimiter: the clock stops here
MaxTokens == 1              \* SpecGate: credentials the clients hold
RandomDenominator == 2000000 \* Math.random() yields k / RandomDenominator
SampleWidth == 60           \* SpecRandom: numerators sampled at each end

(* Program constants *)

VERIFICATION_CODE_EXPIRY == 120000
JWT_EXPIRES_IN == 604800    \* seconds: 7 days
maxAttempts == 5
cooldownPeriod == 15 * 60 * 1000

maxRequests == 5            \* validateRateLimit's default arguments
windowMs == 15 * 60 * 1000

NoDate == -1                \* a Date field that is undefined
NoCode == <<>>              \* a String field that is undefined

----------------------------------------------------------------------------
(* Inputs *)

\* The instants at which the clock is observed: around every threshold
\* the code compares against (expiry of a code, end of a cooldown).
Instants ==
    LET bases == {0, VERIFICATION_CODE_EXPIRY, cooldownPeriod}
    IN  {t \in {b + e : b \in bases, e \in {-1, 0, 1}} : t >= 0 /\ t <= MaxTime}

PhoneNumbers == {"+15551230000"}

\* Numerators of Math.random() used by the handlers and method calls.
RandomSeeds == {0, RandomDenominator - 1}

\* Numerators of Math.random() used by SpecRandom.
RandomSamples ==
    (0 .. SampleWidth) \cup
    ((RandomDenominator - 1 - SampleWidth) .. (RandomDenominator - 1)) \cup
    {(RandomDenominator \div 9) * i : i \in 1..8}

----------------------------------------------------------------------------
(* Number.prototype.toString: decimal digits, most significant first *)

RECURSIVE toString(_)
toString(n) ==
    IF n < 10 THEN <<n>> ELSE toString(n \div 10) \o <<n % 10>>

\* Math.ceil(a / b) for b > 0
MathCeilDiv(a, b) == -((-a) \div b)

\* Math.floor(Math.random() * 1000000): a code drawn without the offset
verificationCodeNumber_NoOffset(k) ==
    LET a == k * 1000
    IN  (a \div RandomDenominator) * 1000
        + ((a % RandomDenominator) * 1000) \div RandomDenominator

\* Math.floor(100000 + Math.random() * 900000) where Math.random() returned
\* k / RandomDenominator. Exact arithmetic; the product k * 900000 is taken
\* as (k * 900) * 1000 to stay within TLC's integers.
verificationCodeNumber(k) ==
    LET a == k * 900
    IN  100000 + (a \div RandomDenominator) * 1000
        + ((a % RandomDenominator) * 1000) \div RandomDenominator

\* What a client may submit as verificationCode: 6 numeric characters
\* (validateVerificationCode): the codes in circulation and one other.
Candidates ==
    {toString(verificationCodeNumber(k)) : k \in RandomSeeds}
        \cup {<<0, 0, 0, 0, 0, 0>>}

----------------------------------------------------------------------------
(* The User document and its instance methods *)

\* new User({phoneNumber, isPhoneVerified: false, isActive: true}) with the
\* schema defaults
NewUser(id, phone, active) ==
    [_id |-> id,
     phoneNumber |-> phone,
     isPhoneVerified |-> FALSE,
     isActive |-> active,
     verificationCode |-> NoCode,
     verificationCodeExpiry |-> NoDate,
     verificationAttempts |-> 0,
     lastVerificationAttempt |-> NoDate]

\* generateVerificationCode that returns a new code but leaves an
\* outstanding code in the document
generateVerificationCode_KeepCode(u, t, k) ==
    LET code == toString(verificationCodeNumber(k))
    IN  [user |-> [u EXCEPT
                     !.verificationCode = IF @ = NoCode THEN code ELSE @,
                     !.verificationCodeExpiry = t + VERIFICATION_CODE_EXPIRY,
                     !.verificationAttempts = @ + 1,
                     !.lastVerificationAttempt = t],
         ret |-> code]

\* generateVerificationCode with the expiry stamped from the earlier code's
\* clock reading kept: expiry is not renewed when a code is outstanding
generateVerificationCode_KeepExpiry(u, t, k) ==
    LET code == toString(verificationCodeNumber(k))
    IN  [user |-> [u EXCEPT
                     !.verificationCode = code,
                     !.verificationCodeExpiry =
                         IF @ = NoDate THEN t + VERIFICATION_CODE_EXPIRY ELSE @,
                     !.verificationAttempts = @ + 1,
                     !.lastVerificationAttempt = t],
         ret |-> code]

\* userSchema.methods.generateVerificationCode, called at clock t when
\* Math.random() returns k / RandomDenominator
generateVerificationCode(u, t, k) ==
    LET code == toString(verificationCodeNumber(k))
    IN  [user |-> [u EXCEPT
                     !.verificationCode = code,
                     !.verificationCodeExpiry = t + VERIFICATION_CODE_EXPIRY,
                     !.verificationAttempts = @ + 1,
                     !.lastVerificationAttempt = t],
         ret |-> code]

NoCodeFound == "No verification code found"
CodeExpired == "Verification code has expired"
InvalidCode == "Invalid verification code"
Verified == "Phone number verified successfully"

\* verifyCode with the comparison of the claimed boundary: expired when
\* expiry <= now
verifyCode_ExpiredAtExpiry(u, code, t) ==
    IF u.verificationCode = NoCode \/ u.verificationCodeExpiry = NoDate
    THEN [user |-> u, ret |-> [success |-> FALSE, message |-> NoCodeFound]]
    ELSE IF u.verificationCodeExpiry <= t
    THEN [user |-> u, ret |-> [success |-> FALSE, message |-> CodeExpired]]
    ELSE IF u.verificationCode # code
    THEN [user |-> u, ret |-> [success |-> FALSE, message |-> InvalidCode]]
    ELSE [user |-> [u EXCEPT
                      !.isPhoneVerified = TRUE,
                      !.verificationCode = NoCode,
                      !.verificationCodeExpiry = NoDate,
                      !.verificationAttempts = 0],
          ret |-> [success |-> TRUE, message |-> Verified]]

\* verifyCode with the code compared before the expiry
verifyCode_MismatchFirst(u, code, t) ==
    IF u.verificationCode = NoCode \/ u.verificationCodeExpiry = NoDate
    THEN [user |-> u, ret |-> [success |-> FALSE, message |-> NoCodeFound]]
    ELSE IF u.verificationCode # code
    THEN [user |-> u, ret |-> [success |-> FALSE, message |-> InvalidCode]]
    ELSE IF u.verificationCodeExpiry < t
    THEN [user |-> u, ret |-> [success |-> FALSE, message |-> CodeExpired]]
    ELSE [user |-> [u EXCEPT
                      !.isPhoneVerified = TRUE,
                      !.verificationCode = NoCode,
                      !.verificationCodeExpiry = NoDate,
                      !.verificationAttempts = 0],
          ret |-> [success |-> TRUE, message |-> Verified]]

\* verifyCode that leaves the code in place on success
verifyCode_KeepCode(u, code, t) ==
    IF u.verificationCode = NoCode \/ u.verificationCodeExpiry = NoDate
    THEN [user |-> u, ret |-> [success |-> FALSE, message |-> NoCodeFound]]
    ELSE IF u.verificationCodeExpiry < t
    THEN [user |-> u, ret |-> [success |-> FALSE, message |-> CodeExpired]]
    ELSE IF u.verificationCode # code
    THEN [user |-> u, ret |-> [success |-> FALSE, message |-> InvalidCode]]
    ELSE [user |-> [u EXCEPT
                      !.isPhoneVerified = TRUE,
                      !.verificationAttempts = 0],
          ret |-> [success |-> TRUE, message |-> Verified]]

\* verifyCode that counts a mismatch as an attempt
verifyCode_CountMismatch(u, code, t) ==
    IF u.verificationCode = NoCode \/ u.verificationCodeExpiry = NoDate
    THEN [user |-> u, ret |-> [success |-> FALSE, message |-> NoCodeFound]]
    ELSE IF u.verificationCodeExpiry < t
    THEN [user |-> u, ret |-> [success |-> FALSE, message |-> CodeExpired]]
    ELSE IF u.verificationCode # code
    THEN [user |-> [u EXCEPT !.verificationAttempts = @ + 1],
          ret |-> [success |-> FALSE, message |-> InvalidCode]]
    ELSE [user |-> [u EXCEPT
                      !.isPhoneVerified = TRUE,
                      !.verificationCode = NoCode,
                      !.verificationCodeExpiry = NoDate,
                      !.verificationAttempts = 0],
          ret |-> [success |-> TRUE, message |-> Verified]]

\* userSchema.methods.verifyCode, called at clock t
verifyCode(u, code, t) ==
    IF u.verificationCode = NoCode \/ u.verificationCodeExpiry = NoDate
    THEN [user |-> u, ret |-> [success |-> FALSE, message |-> NoCodeFound]]
    ELSE IF u.verificationCodeExpiry < t
    THEN [user |-> u, ret |-> [success |-> FALSE, message |-> CodeExpired]]
    ELSE IF u.verificationCode # code
    THEN [user |-> u, ret |-> [success |-> FALSE, message |-> InvalidCode]]
    ELSE [user |-> [u EXCEPT
                      !.isPhoneVerified = TRUE,
                      !.verificationCode = NoCode,
                      !.verificationCodeExpiry = NoDate,
                      !.verificationAttempts = 0],
          ret |-> [success |-> TRUE, message |-> Verified]]

\* The result of canRequestVerificationCode: remainingTime is the number of
\* minutes in the message (0 when the request is allowed); threw is TRUE
\* when lastVerificationAttempt.getTime() is called on undefined.
Allowed == [canRequest |-> TRUE, remainingTime |-> 0, threw |-> FALSE]
Denied(minutes) == [canRequest |-> FALSE, remainingTime |-> minutes, threw |-> FALSE]
Threw == [canRequest |-> FALSE, remainingTime |-> 0, threw |-> TRUE]

\* canRequestVerificationCode with the cap one too low
canRequestVerificationCode_CapFour(u, t) ==
    IF u.verificationAttempts >= maxAttempts - 1
    THEN IF u.lastVerificationAttempt = NoDate
         THEN [user |-> u, ret |-> Threw]
         ELSE LET timeSinceLastAttempt == t - u.lastVerificationAttempt
              IN  IF timeSinceLastAttempt < cooldownPeriod
                  THEN [user |-> u,
                        ret |-> Denied(MathCeilDiv(
                                  cooldownPeriod - timeSinceLastAttempt, 60000))]
                  ELSE [user |-> [u EXCEPT !.verificationAttempts = 0],
                        ret |-> Allowed]
    ELSE [user |-> u, ret |-> Allowed]

\* canRequestVerificationCode that still denies when exactly the cooldown
\* has elapsed
canRequestVerificationCode_DenyAtCooldown(u, t) ==
    IF u.verificationAttempts >= maxAttempts
    THEN IF u.lastVerificationAttempt = NoDate
         THEN [user |-> u, ret |-> Threw]
         ELSE LET timeSinceLastAttempt == t - u.lastVerificationAttempt
              IN  IF timeSinceLastAttempt <= cooldownPeriod
                  THEN [user |-> u,
                        ret |-> Denied(MathCeilDiv(
                                  cooldownPeriod - timeSinceLastAttempt, 60000))]
                  ELSE [user |-> [u EXCEPT !.verificationAttempts = 0],
                        ret |-> Allowed]
    ELSE [user |-> u, ret |-> Allowed]

\* canRequestVerificationCode that allows after the cooldown without
\* resetting the counter
canRequestVerificationCode_NoReset(u, t) ==
    IF u.verificationAttempts >= maxAttempts
    THEN IF u.lastVerificationAttempt = NoDate
         THEN [user |-> u, ret |-> Threw]
         ELSE LET timeSinceLastAttempt == t - u.lastVerificationAttempt
              IN  IF timeSinceLastAttempt < cooldownPeriod
                  THEN [user |-> u,
                        ret |-> Denied(MathCeilDiv(
                                  cooldownPeriod - timeSinceLastAttempt, 60000))]
                  ELSE [user |-> u, ret |-> Allowed]
    ELSE [user |-> u, ret |-> Allowed]

\* canRequestVerificationCode that rounds the remaining minutes down
canRequestVerificationCode_FloorMinutes(u, t) ==
    IF u.verificationAttempts >= maxAttempts
    THEN IF u.lastVerificationAttempt = NoDate
         THEN [user |-> u, ret |-> Threw]
         ELSE LET timeSinceLastAttempt == t - u.lastVerificationAttempt
              IN  IF timeSinceLastAttempt < cooldownPeriod
                  THEN [user |-> u,
                        ret |-> Denied((cooldownPeriod - timeSinceLastAttempt)
                                          \div 60000)]
                  ELSE [user |-> [u EXCEPT !.verificationAttempts = 0],
                        ret |-> Allowed]
    ELSE [user |-> u, ret |-> Allowed]

\* userSchema.methods.canRequestVerificationCode, called at clock t
canRequestVerificationCode(u, t) ==
    IF u.verificationAttempts >= maxAttempts
    THEN IF u.lastVerificationAttempt = NoDate
         THEN [user |-> u, ret |-> Threw]
         ELSE LET timeSinceLastAttempt == t - u.lastVerificationAttempt
              IN  IF timeSinceLastAttempt < cooldownPeriod
                  THEN [user |-> u,
                        ret |-> Denied(MathCeilDiv(
                                  cooldownPeriod - timeSinceLastAttempt, 60000))]
                  ELSE [user |-> [u EXCEPT !.verificationAttempts = 0],
                        ret |-> Allowed]
    ELSE [user |-> u, ret |-> Allowed]

----------------------------------------------------------------------------
(* SpecUser: one User document in memory, its methods called in any order *)

NoCall == [method |-> "none", arg |-> <<>>, ret |-> <<>>]
NoUser == NewUser(0, "", TRUE)
NoAdmission == [canRequest |-> FALSE, remainingTime |-> 0, threw |-> FALSE]

\* No credential in the answer
NoToken ==
    [userId |-> 0, phoneNumber |-> "", isPhoneVerified |-> FALSE,
     iat |-> 0, exp |-> 0]

\* The Authorization header of a request: absent, a string that is no
\* token, a token the server signed, or a token's text with another signature
NoCredential == [kind |-> "missing", token |-> NoToken]
Garbage == [kind |-> "garbage", token |-> NoToken]
Signed(token) == [kind |-> "signed", token |-> token]
Forged(token) == [kind |-> "forged", token |-> token]

\* What a handler answered (status, error, message, data) and what it did
\* on the way: the admission result, whether it saved, and the message it
\* handed to the transport.
NoResponse ==
    [op |-> "none", phoneNumber |-> "",
     status |-> 0, error |-> "", message |-> "",
     attemptsBefore |-> 0,          \* verificationAttempts as loaded
     admission |-> NoAdmission,     \* result of canRequestVerificationCode
     attemptsAfterAdmission |-> 0,  \* verificationAttempts right after it
     saved |-> FALSE,               \* user.save() resolved with a write
     sms |-> <<>>,                  \* <<code>> handed to sendVerificationSMS
     verificationCode |-> NoCode,   \* data.verificationCode of the answer
     attemptsRemaining |-> 0,       \* data.attemptsRemaining of the answer
     token |-> NoToken,             \* data.token of the answer
     newToken |-> NoToken,          \* the X-New-Token header of the answer
     credential |-> NoCredential,   \* the Authorization header of the request
     next |-> FALSE]                \* the middleware passed the request on
\* req.ip of the callers
CallerKeys == {"10.0.0.1", "10.0.0.2"}

\* A caller key the limiter's Map has no entry for
NoEntry == [count |-> 0, resetTime |-> NoDate]

\* No request has gone through the limiter
NoServed ==
    [window |-> [key \in CallerKeys |-> [start |-> NoDate, admitted |-> 0]],
     last |-> [key |-> "", next |-> FALSE, status |-> 0, error |-> "",
               retryAfter |-> 0]]

NoGens == [count |-> 0, firstAt |-> NoDate, lastAt |-> NoDate]

\* A handler call that has not started
Procs == 1..MaxProcs
NoProc ==
    [op |-> "none", phoneNumber |-> "", pc |-> "idle",
     user |-> NoUser,               \* the handler's local document
     loaded |-> NoUser,             \* that document as loaded or constructed
     isNew |-> FALSE,               \* the local document was not loaded
     admission |-> NoAdmission,     \* what canRequestVerificationCode said
     log |-> <<>>,                  \* the steps taken, in order
     sms |-> <<>>,                  \* <<code>> handed to sendVerificationSMS
     candidate |-> NoCode,          \* the verificationCode of the request body
     verified |-> FALSE,            \* verifyCode answered success
     status |-> 0, error |-> ""]

\* The part of a call the next call is compared with
Summary(c) ==
    [method |-> c.method, arg |-> c.arg, ret |-> c.ret,
     replaced |-> IF c.method = "generateVerificationCode"
                  THEN c.before.verificationCode ELSE NoCode]

SystemIdle ==
    /\ users = {}
    /\ nextId = 1
    /\ twilioClient = FALSE
    /\ response = NoResponse
    /\ gens = [p \in PhoneNumbers |-> NoGens]
    /\ tokens = {}
    /\ procs = [i \in Procs |-> NoProc]
    /\ requests = [key \in CallerKeys |-> NoEntry]
    /\ served = NoServed
    /\ sent = [p \in PhoneNumbers |-> <<>>]

InitUser ==
    /\ now = 0
    /\ \E p \in PhoneNumbers, active \in BOOLEAN : user = NewUser(1, p, active)
    /\ call = NoCall
    /\ prev = NoCall
    /\ SystemIdle

\* Date.now() moves on to a later instant
Tick ==
    /\ \E t \in Instants : t > now /\ now' = t
    /\ UNCHANGED <<user, call, prev, users, nextId, twilioClient, tokens,
                   procs, requests, served, sent, response, gens>>

CallGenerateVerificationCode(k) ==
    /\ user.verificationAttempts < MaxCalls
    /\ LET g == generateVerificationCode(user, now, k)
       IN  /\ user' = g.user
           /\ call' = [method |-> "generateVerificationCode", arg |-> <<k>>,
                       at |-> now, ret |-> g.ret, before |-> user]
    /\ prev' = Summary(call)
    /\ UNCHANGED <<now, users, nextId, twilioClient, tokens, procs,
                   requests, served, sent, response, gens>>

CallVerifyCode(code) ==
    /\ LET v == verifyCode(user, code, now)
       IN  /\ user' = v.user
           /\ call' = [method |-> "verifyCode", arg |-> code,
                       at |-> now, ret |-> v.ret, before |-> user]
    /\ prev' = Summary(call)
    /\ UNCHANGED <<now, users, nextId, twilioClient, tokens, procs,
                   requests, served, sent, response, gens>>

CallCanRequestVerificationCode ==
    /\ LET c == canRequestVerificationCode(user, now)
       IN  /\ user' = c.user
           /\ call' = [method |-> "canRequestVerificationCode", arg |-> <<>>,
                       at |-> now, ret |-> c.ret, before |-> user]
    /\ prev' = Summary(call)
    /\ UNCHANGED <<now, users, nextId, twilioClient, tokens, procs,
                   requests, served, sent, response, gens>>

NextUser ==
    \/ Tick
    \/ \E k \in RandomSeeds : CallGenerateVerificationCode(k)
    \/ \E code \in Candidates : CallVerifyCode(code)
    \/ CallCanRequestVerificationCode

SpecUser == InitUser /\ [][NextUser]_vars

----------------------------------------------------------------------------
(* Spec: the users collection, the handlers, the transport, the store *)

\* User.findByPhoneNumber: the stored documents with that phone number
findByPhoneNumber(phone) == {u \in users : u.phoneNumber = phone}

\* insertOne on a collection without the unique index
insertOne_NoUniqueIndex(coll, doc) ==
    [ok |-> TRUE, users |-> coll \cup {doc}]

\* user.save() of a new document: insertOne under the unique index on
\* phoneNumber (E11000 when the number is taken)
insertOne(coll, doc) ==
    IF \E u \in coll : u.phoneNumber = doc.phoneNumber
    THEN [ok |-> FALSE, users |-> coll]
    ELSE [ok |-> TRUE, users |-> coll \cup {doc}]

\* user.save() of a loaded document: the assigned paths are written to the
\* document with that _id
updateOne(coll, doc) ==
    IF \E u \in coll : u._id = doc._id
    THEN [ok |-> TRUE, users |-> {u \in coll : u._id # doc._id} \cup {doc}]
    ELSE [ok |-> FALSE, users |-> coll]

\* sendVerificationSMS that hands the code back after a Twilio delivery too
sendVerificationSMS_EchoCode(phone, code, delivered) ==
    IF ~twilioClient \/ delivered
    THEN [success |-> TRUE, mockMode |-> TRUE, verificationCode |-> code,
          error |-> "",
          message |-> "Verification code sent successfully (mock mode)"]
    ELSE [success |-> FALSE, mockMode |-> FALSE, verificationCode |-> NoCode,
          error |-> "SMS_SEND_FAILED",
          message |-> "Failed to send verification code"]

\* sendVerificationSMS: mock mode when no Twilio client, else Twilio
\* delivers or throws
sendVerificationSMS(phone, code, delivered) ==
    IF ~twilioClient
    THEN [success |-> TRUE, mockMode |-> TRUE, verificationCode |-> code,
          error |-> "",
          message |-> "Verification code sent successfully (mock mode)"]
    ELSE IF delivered
    THEN [success |-> TRUE, mockMode |-> FALSE, verificationCode |-> NoCode,
          error |-> "", message |-> "Verification code sent successfully"]
    ELSE [success |-> FALSE, mockMode |-> FALSE, verificationCode |-> NoCode,
          error |-> "SMS_SEND_FAILED",
          message |-> "Failed to send verification code"]

\* The run of generations for a phone number after one more generation;
\* restart is TRUE when the program reset the counter just before
\* (cooldown elapsed). The count saturates above maxAttempts.
GensAfterGenerate(g, restart, t) ==
    IF restart \/ g.count = 0
    THEN [count |-> 1, firstAt |-> t, lastAt |-> t]
    ELSE [count |-> IF g.count > maxAttempts THEN g.count ELSE g.count + 1,
          firstAt |-> g.firstAt, lastAt |-> t]

Init ==
    /\ now = 0
    /\ users = {}
    /\ nextId = 1
    /\ twilioClient \in BOOLEAN
    /\ response = NoResponse
    /\ gens = [p \in PhoneNumbers |-> NoGens]
    /\ tokens = {}
    /\ procs = [i \in Procs |-> NoProc]
    /\ requests = [key \in CallerKeys |-> NoEntry]
    /\ served = NoServed
    /\ sent = [p \in PhoneNumbers |-> <<>>]
    /\ user = NoUser
    /\ call = NoCall
    /\ prev = NoCall

\* generateToken that claims a verified phone number for every account
generateToken_AlwaysVerified(u, t) ==
    [userId |-> u._id, phoneNumber |-> u.phoneNumber,
     isPhoneVerified |-> TRUE,
     iat |-> t \div 1000, exp |-> (t \div 1000) + JWT_EXPIRES_IN]

\* generateToken: the claims jwt.sign puts in the credential, iat and exp
\* (seconds) included
generateToken(u, t) ==
    [userId |-> u._id, phoneNumber |-> u.phoneNumber,
     isPhoneVerified |-> u.isPhoneVerified,
     iat |-> t \div 1000, exp |-> (t \div 1000) + JWT_EXPIRES_IN]

\* POST /api/auth/register
registerUser(phone, dbOk) ==
    LET existing == findByPhoneNumber(phone)
        doc == NewUser(nextId, phone, TRUE)
        ins == insertOne(users, doc)
        base == [NoResponse EXCEPT !.op = "register", !.phoneNumber = phone]
    IN  /\ nextId <= MaxId
        /\ IF existing # {}
           THEN /\ response' = [base EXCEPT !.status = 409,
                                            !.error = "USER_ALREADY_EXISTS"]
                /\ UNCHANGED <<users, nextId>>
           ELSE IF ~dbOk
           THEN /\ response' = [base EXCEPT !.status = 500,
                                            !.error = "REGISTRATION_FAILED"]
                /\ UNCHANGED <<users, nextId>>
           ELSE IF ~ins.ok
           THEN /\ response' = [base EXCEPT !.status = 409,
                                            !.error = "DUPLICATE_PHONE_NUMBER"]
                /\ UNCHANGED <<users, nextId>>
           ELSE /\ response' = [base EXCEPT !.status = 201, !.saved = TRUE,
                                            !.token = generateToken(doc, now)]
                /\ users' = ins.users
                /\ nextId' = nextId + 1
        /\ UNCHANGED <<now, user, call, prev, twilioClient, tokens, procs,
                       requests, served, sent,
                       gens>>

\* requestPhoneVerification that drops the generated code when the
\* transport fails
requestPhoneVerification_RollBack(phone, k, dbOk, delivered) ==
    LET found == findByPhoneNumber(phone)
        isNew == found = {}
        u0 == IF isNew THEN NewUser(nextId, phone, TRUE)
                       ELSE CHOOSE u \in found : TRUE
        c == canRequestVerificationCode(u0, now)
        g == generateVerificationCode(c.user, now, k)
        sav == IF isNew THEN insertOne(users, g.user) ELSE updateOne(users, g.user)
        sms == sendVerificationSMS(phone, g.ret, delivered)
        base == [NoResponse EXCEPT !.op = "request", !.phoneNumber = phone,
                                   !.attemptsBefore = u0.verificationAttempts,
                                   !.admission = c.ret,
                                   !.attemptsAfterAdmission =
                                       c.user.verificationAttempts]
    IN  /\ isNew => nextId <= MaxId
        /\ IF c.ret.threw
           THEN /\ response' = [base EXCEPT !.status = 500,
                                   !.error = "VERIFICATION_REQUEST_FAILED"]
                /\ UNCHANGED <<users, nextId, gens>>
           ELSE IF ~c.ret.canRequest
           THEN /\ response' = [base EXCEPT !.status = 429,
                                   !.error = "RATE_LIMIT_EXCEEDED"]
                /\ UNCHANGED <<users, nextId, gens>>
           ELSE IF ~dbOk \/ ~sav.ok
           THEN /\ response' = [base EXCEPT !.status = 500,
                                   !.error = "VERIFICATION_REQUEST_FAILED"]
                /\ UNCHANGED <<users, nextId, gens>>
           ELSE IF ~sms.success
           THEN /\ response' = [base EXCEPT !.status = 500,
                                   !.sms = <<g.ret>>,
                                   !.error = sms.error,
                                   !.message = sms.message]
                /\ UNCHANGED <<users, nextId, gens>>
           ELSE /\ users' = sav.users
                /\ nextId' = IF isNew THEN nextId + 1 ELSE nextId
                /\ gens' = [gens EXCEPT ![phone] =
                              GensAfterGenerate(@,
                                  u0.verificationAttempts >= maxAttempts, now)]
                /\ response' =
                     IF ~sms.success
                     THEN [base EXCEPT !.status = 500, !.saved = TRUE,
                                       !.sms = <<g.ret>>,
                                       !.error = sms.error,
                                       !.message = sms.message]
                     ELSE [base EXCEPT !.status = 200, !.saved = TRUE,
                                       !.sms = <<g.ret>>,
                                       !.message = sms.message,
                                       !.verificationCode =
                                           IF sms.mockMode
                                           THEN sms.verificationCode
                                           ELSE NoCode,
                                       !.attemptsRemaining =
                                           5 - g.user.verificationAttempts]
        /\ UNCHANGED <<now, user, call, prev, twilioClient, tokens, procs,
                       requests, served>>

\* POST /api/auth/verify-phone/request
requestPhoneVerification(phone, k, dbOk, delivered) ==
    LET found == findByPhoneNumber(phone)
        isNew == found = {}
        u0 == IF isNew THEN NewUser(nextId, phone, TRUE)
                       ELSE CHOOSE u \in found : TRUE
        c == canRequestVerificationCode(u0, now)
        g == generateVerificationCode(c.user, now, k)
        sav == IF isNew THEN insertOne(users, g.user) ELSE updateOne(users, g.user)
        sms == sendVerificationSMS(phone, g.ret, delivered)
        base == [NoResponse EXCEPT !.op = "request", !.phoneNumber = phone,
                                   !.attemptsBefore = u0.verificationAttempts,
                                   !.admission = c.ret,
                                   !.attemptsAfterAdmission =
                                       c.user.verificationAttempts]
    IN  /\ isNew => nextId <= MaxId
        /\ IF c.ret.threw
           THEN /\ response' = [base EXCEPT !.status = 500,
                                   !.error = "VERIFICATION_REQUEST_FAILED"]
                /\ UNCHANGED <<users, nextId, gens>>
           ELSE IF ~c.ret.canRequest
           THEN /\ response' = [base EXCEPT !.status = 429,
                                   !.error = "RATE_LIMIT_EXCEEDED"]
                /\ UNCHANGED <<users, nextId, gens>>
           ELSE IF ~dbOk \/ ~sav.ok
           THEN /\ response' = [base EXCEPT !.status = 500,
                                   !.error = "VERIFICATION_REQUEST_FAILED"]
                /\ UNCHANGED <<users, nextId, gens>>
           ELSE /\ users' = sav.users
                /\ nextId' = IF isNew THEN nextId + 1 ELSE nextId
                /\ gens' = [gens EXCEPT ![phone] =
                              GensAfterGenerate(@,
                                  u0.verificationAttempts >= maxAttempts, now)]
                /\ response' =
                     IF ~sms.success
                     THEN [base EXCEPT !.status = 500, !.saved = TRUE,
                                       !.sms = <<g.ret>>,
                                       !.error = sms.error,
                                       !.message = sms.message]
                     ELSE [base EXCEPT !.status = 200, !.saved = TRUE,
                                       !.sms = <<g.ret>>,
                                       !.message = sms.message,
                                       !.verificationCode =
                                           IF sms.mockMode
                                           THEN sms.verificationCode
                                           ELSE NoCode,
                                       !.attemptsRemaining =
                                           5 - g.user.verificationAttempts]
        /\ UNCHANGED <<now, user, call, prev, twilioClient, tokens, procs,
                       requests, served>>

\* confirmPhoneVerification that signs the credential before it saves
confirmPhoneVerification_TokenBeforeSave(phone, code, dbOk) ==
    LET found == findByPhoneNumber(phone)
        u0 == IF found = {} THEN NoUser ELSE CHOOSE u \in found : TRUE
        v == verifyCode(u0, code, now)
        sav == updateOne(users, v.user)
        base == [NoResponse EXCEPT !.op = "confirm", !.phoneNumber = phone,
                                   !.attemptsBefore = u0.verificationAttempts]
    IN  /\ IF found = {}
           THEN /\ response' = [base EXCEPT !.status = 404,
                                            !.error = "USER_NOT_FOUND"]
                /\ UNCHANGED <<users, gens>>
           ELSE IF ~dbOk \/ ~sav.ok
           THEN /\ response' = [base EXCEPT !.status = 500,
                                   !.error = "VERIFICATION_CONFIRM_FAILED",
                                   !.token = IF v.ret.success
                                             THEN generateToken(v.user, now)
                                             ELSE NoToken]
                /\ UNCHANGED <<users, gens>>
           ELSE IF ~v.ret.success
           THEN /\ users' = sav.users
                /\ response' = [base EXCEPT !.status = 400,
                                   !.error = "INVALID_VERIFICATION_CODE",
                                   !.message = v.ret.message,
                                   !.saved = (v.user # u0)]
                /\ UNCHANGED gens
           ELSE /\ users' = sav.users
                /\ gens' = [gens EXCEPT ![phone] = NoGens]
                /\ response' = [base EXCEPT !.status = 200,
                                            !.message = v.ret.message,
                                            !.saved = TRUE,
                                            !.token = generateToken(v.user, now)]
        /\ UNCHANGED <<now, user, call, prev, nextId, twilioClient, tokens,
                       procs, requests, served, sent>>

\* POST /api/auth/verify-phone/confirm
confirmPhoneVerification(phone, code, dbOk) ==
    LET found == findByPhoneNumber(phone)
        u0 == IF found = {} THEN NoUser ELSE CHOOSE u \in found : TRUE
        v == verifyCode(u0, code, now)
        sav == updateOne(users, v.user)
        base == [NoResponse EXCEPT !.op = "confirm", !.phoneNumber = phone,
                                   !.attemptsBefore = u0.verificationAttempts]
    IN  /\ IF found = {}
           THEN /\ response' = [base EXCEPT !.status = 404,
                                            !.error = "USER_NOT_FOUND"]
                /\ UNCHANGED <<users, gens>>
           ELSE IF ~dbOk \/ ~sav.ok
           THEN /\ response' = [base EXCEPT !.status = 500,
                                   !.error = "VERIFICATION_CONFIRM_FAILED"]
                /\ UNCHANGED <<users, gens>>
           ELSE IF ~v.ret.success
           THEN /\ users' = sav.users
                /\ response' = [base EXCEPT !.status = 400,
                                   !.error = "INVALID_VERIFICATION_CODE",
                                   !.message = v.ret.message,
                                   !.saved = (v.user # u0)]
                /\ UNCHANGED gens
           ELSE /\ users' = sav.users
                /\ gens' = [gens EXCEPT ![phone] = NoGens]
                /\ response' = [base EXCEPT !.status = 200,
                                            !.message = v.ret.message,
                                            !.saved = TRUE,
                                            !.token = generateToken(v.user, now)]
        /\ UNCHANGED <<now, user, call, prev, nextId, twilioClient, tokens,
                       procs, requests, served, sent>>

\* The store's TTL monitor acting on the index
\* {verificationCodeExpiry: 1}, {expireAfterSeconds: 0}: documents whose
\* indexed date has passed are deleted
TtlMonitor ==
    /\ users' = {u \in users : ~(/\ u.verificationCodeExpiry # NoDate
                                 /\ u.verificationCodeExpiry < now)}
    /\ UNCHANGED <<now, user, call, prev, nextId, twilioClient, tokens,
                   procs, requests, served, sent, response, gens>>

\* cleanupExpiredCodes that unsets the code and leaves its expiry
cleanupExpiredCodes_KeepExpiry ==
    /\ users' = {IF u.verificationCodeExpiry # NoDate
                    /\ u.verificationCodeExpiry < now
                 THEN [u EXCEPT !.verificationCode = NoCode]
                 ELSE u : u \in users}
    /\ UNCHANGED <<now, user, call, prev, nextId, twilioClient, tokens,
                   procs, requests, served, sent, response, gens>>

\* cleanupExpiredCodes whose filter does not look at the clock: every
\* account with an expiry is swept
cleanupExpiredCodes_AnyExpiry ==
    /\ users' = {IF u.verificationCodeExpiry # NoDate
                 THEN [u EXCEPT !.verificationCode = NoCode,
                                !.verificationCodeExpiry = NoDate]
                 ELSE u : u \in users}
    /\ UNCHANGED <<now, user, call, prev, nextId, twilioClient, tokens,
                   procs, requests, served, sent, response, gens>>

\* User.cleanupExpiredCodes
cleanupExpiredCodes ==
    /\ users' = {IF u.verificationCodeExpiry # NoDate
                    /\ u.verificationCodeExpiry < now
                 THEN [u EXCEPT !.verificationCode = NoCode,
                                !.verificationCodeExpiry = NoDate]
                 ELSE u : u \in users}
    /\ UNCHANGED <<now, user, call, prev, nextId, twilioClient, tokens,
                   procs, requests, served, sent, response, gens>>

RequestCode(phone) ==
    \E k \in RandomSeeds, dbOk \in BOOLEAN, delivered \in BOOLEAN :
        /\ requestPhoneVerification(phone, k, dbOk, delivered)
        /\ UNCHANGED sent

ConfirmCode(phone) ==
    \E code \in Candidates, dbOk \in BOOLEAN :
        confirmPhoneVerification(phone, code, dbOk)

Next ==
    \/ Tick
    \/ \E phone \in PhoneNumbers, dbOk \in BOOLEAN : registerUser(phone, dbOk)
    \/ \E phone \in PhoneNumbers : RequestCode(phone)
    \/ \E phone \in PhoneNumbers : ConfirmCode(phone)
    \/ TtlMonitor
    \/ cleanupExpiredCodes

Spec == Init /\ [][Next]_vars

----------------------------------------------------------------------------
(* Credentials as clients present them, and the middleware that reads them *)

\* jwt.verify that accepts a token until the second after exp
jwtVerify_ExpiredAfterExp(cred, t) ==
    IF cred.kind # "signed"
    THEN [ok |-> FALSE, name |-> "JsonWebTokenError", decoded |-> NoToken]
    ELSE IF (t \div 1000) > cred.token.exp
    THEN [ok |-> FALSE, name |-> "TokenExpiredError", decoded |-> NoToken]
    ELSE [ok |-> TRUE, name |-> "", decoded |-> cred.token]

\* jwt.verify(token, JWT_SECRET): parse, check the signature, then the
\* lifetime against the clock in whole seconds
jwtVerify(cred, t) ==
    IF cred.kind # "signed"
    THEN [ok |-> FALSE, name |-> "JsonWebTokenError", decoded |-> NoToken]
    ELSE IF (t \div 1000) >= cred.token.exp
    THEN [ok |-> FALSE, name |-> "TokenExpiredError", decoded |-> NoToken]
    ELSE [ok |-> TRUE, name |-> "", decoded |-> cred.token]

\* User.findById
findById(id) == {u \in users : u._id = id}

NoAuth ==
    [next |-> FALSE, status |-> 0, error |-> "", user |-> NoUser,
     tokenData |-> NoToken]

\* authenticateToken that trusts the credential and loads no account
authenticateToken_NoLookup(cred, t, dbOk) ==
    LET v == jwtVerify(cred, t)
    IN  IF cred.kind = "missing"
        THEN [NoAuth EXCEPT !.status = 401, !.error = "MISSING_TOKEN"]
        ELSE IF ~v.ok
        THEN [NoAuth EXCEPT !.status = 401,
                 !.error = IF v.name = "TokenExpiredError"
                           THEN "TOKEN_EXPIRED"
                           ELSE IF v.name = "JsonWebTokenError"
                           THEN "MALFORMED_TOKEN"
                           ELSE "INVALID_TOKEN"]
        ELSE [NoAuth EXCEPT !.next = TRUE,
                 !.user = [NoUser EXCEPT !._id = v.decoded.userId,
                              !.phoneNumber = v.decoded.phoneNumber,
                              !.isPhoneVerified = v.decoded.isPhoneVerified],
                 !.tokenData = v.decoded]

\* authenticateToken: what it answers, or the req.user and req.tokenData it
\* passes on
authenticateToken(cred, t, dbOk) ==
    LET v == jwtVerify(cred, t)
        found == findById(v.decoded.userId)
        u0 == IF found = {} THEN NoUser ELSE CHOOSE u \in found : TRUE
    IN  IF cred.kind = "missing"
        THEN [NoAuth EXCEPT !.status = 401, !.error = "MISSING_TOKEN"]
        ELSE IF ~v.ok
        THEN [NoAuth EXCEPT !.status = 401,
                 !.error = IF v.name = "TokenExpiredError"
                           THEN "TOKEN_EXPIRED"
                           ELSE IF v.name = "JsonWebTokenError"
                           THEN "MALFORMED_TOKEN"
                           ELSE "INVALID_TOKEN"]
        ELSE IF ~dbOk
        THEN [NoAuth EXCEPT !.status = 401, !.error = "INVALID_TOKEN"]
        ELSE IF found = {} \/ ~u0.isActive
        THEN [NoAuth EXCEPT !.status = 401, !.error = "INVALID_TOKEN"]
        ELSE [NoAuth EXCEPT !.next = TRUE, !.user = u0,
                            !.tokenData = v.decoded]

\* optionalAuth: sets req.user and req.tokenData when it can, and passes
\* the request on in every case
optionalAuth(cred, t, dbOk) ==
    LET v == jwtVerify(cred, t)
        found == findById(v.decoded.userId)
        u0 == IF found = {} THEN NoUser ELSE CHOOSE u \in found : TRUE
    IN  IF cred.kind # "missing" /\ v.ok /\ dbOk /\ found # {} /\ u0.isActive
        THEN [NoAuth EXCEPT !.next = TRUE, !.user = u0,
                            !.tokenData = v.decoded]
        ELSE [NoAuth EXCEPT !.next = TRUE]

----------------------------------------------------------------------------
(* SpecAuth: the handlers that sign credentials, and the clients that keep *)
(* them and present them again.                                             *)

\* POST /api/auth/login. password is what the password checks come to:
\* "ok" (none needed, or the right one), "invalid" or "required"
loginUser(phone, password, dbOk) ==
    LET found == findByPhoneNumber(phone)
        u0 == IF found = {} THEN NoUser ELSE CHOOSE u \in found : TRUE
        sav == updateOne(users, u0)
        base == [NoResponse EXCEPT !.op = "login", !.phoneNumber = phone]
    IN  /\ response' =
              IF found = {} \/ ~u0.isActive
              THEN [base EXCEPT !.status = 401,
                                !.error = "INVALID_CREDENTIALS"]
              ELSE IF password = "invalid"
              THEN [base EXCEPT !.status = 401, !.error = "INVALID_PASSWORD"]
              ELSE IF password = "required"
              THEN [base EXCEPT !.status = 401, !.error = "PASSWORD_REQUIRED"]
              ELSE IF ~dbOk \/ ~sav.ok
              THEN [base EXCEPT !.status = 500, !.error = "LOGIN_FAILED"]
              ELSE [base EXCEPT !.status = 200, !.saved = TRUE,
                                !.token = generateToken(u0, now)]
        /\ UNCHANGED <<now, user, call, prev, users, nextId, twilioClient,
                       tokens, procs, requests, served, sent, gens>>

\* POST /api/auth/refresh-token with a credential a client holds:
\* authenticateToken loads the account the credential names, refreshToken
\* signs a new credential for it
refreshToken(token) ==
    LET auth == authenticateToken(Signed(token), now, TRUE)
        base == [NoResponse EXCEPT !.op = "refresh",
                                   !.phoneNumber = token.phoneNumber]
    IN  /\ token \in tokens
        /\ response' =
              IF ~auth.next
              THEN [base EXCEPT !.status = auth.status, !.error = auth.error]
              ELSE [base EXCEPT !.status = 200, !.next = TRUE,
                                !.token = generateToken(auth.user, now)]
        /\ UNCHANGED <<now, user, call, prev, users, nextId, twilioClient,
                       tokens, procs, requests, served, sent, gens>>

\* The client keeps the credential of the answer it just got
KeepToken ==
    /\ response.token # NoToken
    /\ response.token \notin tokens
    /\ tokens' = tokens \cup {response.token}
    /\ UNCHANGED <<now, user, call, prev, users, nextId, twilioClient,
                   procs, requests, served, sent, response, gens>>

\* A call of one of the handlers that sign a credential
IssuingCall ==
    \/ \E phone \in PhoneNumbers, dbOk \in BOOLEAN : registerUser(phone, dbOk)
    \/ \E phone \in PhoneNumbers, dbOk \in BOOLEAN,
          password \in {"ok", "invalid", "required"} :
          loginUser(phone, password, dbOk)
    \/ \E phone \in PhoneNumbers : ConfirmCode(phone)
    \/ \E token \in tokens : refreshToken(token)

NextAuth ==
    \/ \E phone \in PhoneNumbers, dbOk \in BOOLEAN : registerUser(phone, dbOk)
    \/ \E phone \in PhoneNumbers, dbOk \in BOOLEAN,
          password \in {"ok", "invalid", "required"} :
          loginUser(phone, password, dbOk)
    \/ \E phone \in PhoneNumbers : RequestCode(phone)
    \/ \E phone \in PhoneNumbers : ConfirmCode(phone)
    \/ \E token \in tokens : refreshToken(token)
    \/ KeepToken

SpecAuth == Init /\ [][NextAuth]_vars

----------------------------------------------------------------------------
(* SpecGate: the protected routes. Accounts are created, verified,         *)
(* soft-disabled by an operator and expired by the store; clients present  *)
(* what they hold, or something else, over the lifetime of a credential.   *)

\* The instants at which the clock is observed: the start, the expiry of
\* the first code, and around the last hour and the end of the lifetime of
\* a credential signed at the start
GateInstants ==
    LET exp == JWT_EXPIRES_IN
    IN  {t \in {0, (exp - 3600) * 1000, (exp - 3599) * 1000 - 1,
                (exp - 3599) * 1000, exp * 1000} : t <= MaxGateTime}

\* What a client can put in the Authorization header
Presented ==
    {NoCredential, Garbage}
        \cup {Signed(t) : t \in tokens} \cup {Forged(t) : t \in tokens}

GateFrame ==
    UNCHANGED <<now, user, call, prev, users, nextId, twilioClient, tokens,
                procs, requests, served, sent, gens>>

TickGate ==
    /\ \E t \in GateInstants : t > now /\ now' = t
    /\ UNCHANGED <<user, call, prev, users, nextId, twilioClient, tokens,
                   procs, requests, served, sent, response, gens>>

\* An operator soft-disables an account in the store
Deactivate ==
    /\ \E u \in users :
          /\ u.isActive
          /\ users' = (users \ {u}) \cup {[u EXCEPT !.isActive = FALSE]}
    /\ UNCHANGED <<now, user, call, prev, nextId, twilioClient, tokens,
                   procs, requests, served, sent, response, gens>>

\* SpecAccounts: the calls of SpecAuth on accounts an operator may disable
NextAccounts ==
    \/ NextAuth
    \/ Deactivate

SpecAccounts == Init /\ [][NextAccounts]_vars

\* SpecThrottle: request-code and confirm-code calls on an account, one
\* after another, with a record of when codes were generated and sent.

\* The times of the latest maxAttempts + 1 codes sent, after one more at t
SentAfter(log, t) ==
    LET l == Append(log, t)
    IN  IF Len(l) > maxAttempts + 1 THEN Tail(l) ELSE l

\* POST /api/auth/verify-phone/request, noting the time of a code that was
\* generated, saved and handed to the transport with success
RequestCodeSent(phone) ==
    \E delivered \in BOOLEAN :
        /\ requestPhoneVerification(phone, 0, TRUE, delivered)
        /\ sent' = [sent EXCEPT ![phone] =
                      IF response'.status = 200 THEN SentAfter(@, now) ELSE @]

\* The instants at which the clock is observed: the start, 1 ms later and
\* the end of the cooldown
ThrottleInstants ==
    {t \in {0, 1, cooldownPeriod} : t <= MaxTime}

TickThrottle ==
    /\ \E t \in ThrottleInstants : t > now /\ now' = t
    /\ UNCHANGED <<user, call, prev, users, nextId, twilioClient, tokens,
                   procs, requests, served, sent, response, gens>>

NextThrottle ==
    \/ TickThrottle
    \/ \E phone \in PhoneNumbers : RequestCodeSent(phone)
    \/ \E phone \in PhoneNumbers :
          confirmPhoneVerification(phone, toString(verificationCodeNumber(0)),
                                   TRUE)

SpecThrottle == Init /\ [][NextThrottle]_vars

\* GET /api/auth/profile: authenticateToken, getUserProfile
getUserProfile(cred, dbOk) ==
    LET auth == authenticateToken(cred, now, dbOk)
        base == [NoResponse EXCEPT !.op = "profile", !.credential = cred,
                                   !.phoneNumber = auth.user.phoneNumber]
    IN  /\ response' =
              IF ~auth.next
              THEN [base EXCEPT !.status = auth.status, !.error = auth.error]
              ELSE [base EXCEPT !.status = 200, !.next = TRUE]
        /\ GateFrame

\* The dashboard route with requirePhoneVerification reading the
\* isPhoneVerified claim of the credential instead of req.user
dashboard_ClaimOnly(cred, dbOk) ==
    LET auth == authenticateToken(cred, now, dbOk)
        base == [NoResponse EXCEPT !.op = "dashboard", !.credential = cred,
                                   !.phoneNumber = auth.user.phoneNumber]
    IN  /\ response' =
              IF ~auth.next
              THEN [base EXCEPT !.status = auth.status, !.error = auth.error]
              ELSE IF ~auth.tokenData.isPhoneVerified
              THEN [base EXCEPT !.status = 403,
                                !.error = "PHONE_NOT_VERIFIED"]
              ELSE [base EXCEPT !.status = 200, !.next = TRUE]
        /\ GateFrame

\* GET /api/auth/dashboard: authenticateToken, requirePhoneVerification,
\* the dashboard handler
dashboard(cred, dbOk) ==
    LET auth == authenticateToken(cred, now, dbOk)
        base == [NoResponse EXCEPT !.op = "dashboard", !.credential = cred,
                                   !.phoneNumber = auth.user.phoneNumber]
    IN  /\ response' =
              IF ~auth.next
              THEN [base EXCEPT !.status = auth.status, !.error = auth.error]
              ELSE IF ~auth.user.isPhoneVerified
              THEN [base EXCEPT !.status = 403,
                                !.error = "PHONE_NOT_VERIFIED"]
              ELSE [base EXCEPT !.status = 200, !.next = TRUE]
        /\ GateFrame

\* refreshTokenIfNeeded that also renews a credential with exactly one hour
\* left
refreshTokenIfNeeded_HourIncluded(cred, dbOk) ==
    LET auth == optionalAuth(cred, now, dbOk)
        timeUntilExpiry == auth.tokenData.exp - (now \div 1000)
        base == [NoResponse EXCEPT !.op = "refreshIfNeeded",
                                   !.credential = cred,
                                   !.phoneNumber = auth.user.phoneNumber,
                                   !.next = TRUE]
    IN  /\ response' =
              IF auth.tokenData # NoToken /\ auth.user # NoUser
                 /\ timeUntilExpiry <= 3600
              THEN [base EXCEPT !.newToken = generateToken(auth.user, now)]
              ELSE base
        /\ GateFrame

\* refreshTokenIfNeeded behind optionalAuth
refreshTokenIfNeeded(cred, dbOk) ==
    LET auth == optionalAuth(cred, now, dbOk)
        timeUntilExpiry == auth.tokenData.exp - (now \div 1000)
        base == [NoResponse EXCEPT !.op = "refreshIfNeeded",
                                   !.credential = cred,
                                   !.phoneNumber = auth.user.phoneNumber,
                                   !.next = TRUE]
    IN  /\ response' =
              IF auth.tokenData # NoToken /\ auth.user # NoUser
                 /\ timeUntilExpiry < 3600
              THEN [base EXCEPT !.newToken = generateToken(auth.user, now)]
              ELSE base
        /\ GateFrame

NextGate ==
    \/ TickGate
    \/ \E phone \in PhoneNumbers : registerUser(phone, TRUE)
    \/ \E phone \in PhoneNumbers :
          /\ \A u \in findByPhoneNumber(phone) : u.verificationCode = NoCode
          /\ requestPhoneVerification(phone, 0, TRUE, TRUE)
          /\ UNCHANGED sent
    \/ \E phone \in PhoneNumbers :
          confirmPhoneVerification(phone, toString(verificationCodeNumber(0)),
                                   TRUE)
    \/ Cardinality(tokens) < MaxTokens /\ KeepToken
    \/ Deactivate
    \/ TtlMonitor
    \/ \E cred \in Presented, dbOk \in BOOLEAN : getUserProfile(cred, dbOk)
    \/ \E cred \in Presented, dbOk \in BOOLEAN : dashboard(cred, dbOk)
    \/ \E cred \in Presented, dbOk \in BOOLEAN :
          refreshTokenIfNeeded(cred, dbOk)

SpecGate == Init /\ [][NextGate]_vars

----------------------------------------------------------------------------
(* The per-caller limiter built by validateRateLimit(maxRequests, windowMs) *)

\* The instants at which the limiter reads the clock: around the end of a
\* window opened at 0 and of one opened right after it
LimiterInstants ==
    {t \in {0, 1, windowMs - 1, windowMs, windowMs + 1,
            2 * windowMs, 2 * windowMs + 1, 2 * windowMs + 2} :
        t <= MaxLimiterTime}

\* The window a request of this caller at clock t falls in, and the
\* requests admitted in it so far: a window opens with the caller's first
\* request and with the first request later than windowMs after the opening
WindowAt(w, t) ==
    IF w.start = NoDate \/ t - w.start > windowMs
    THEN [start |-> t, admitted |-> 0]
    ELSE w

\* The limiter with an entry that is never renewed
validateRateLimit_NoReset(key) ==
    LET requestData == requests[key]
        w == WindowAt(served.window[key], now)
        answer == [key |-> key, next |-> TRUE, status |-> 0, error |-> "",
                   retryAfter |-> 0]
        admit(entry) ==
            /\ requests' = [requests EXCEPT ![key] = entry]
            /\ served' = [window |-> [served.window EXCEPT ![key] =
                                         [w EXCEPT !.admitted = @ + 1]],
                          last |-> answer]
    IN  /\ IF requestData = NoEntry
           THEN admit([count |-> 1, resetTime |-> now + windowMs])
           ELSE IF requestData.count >= maxRequests
           THEN /\ UNCHANGED requests
                /\ served' =
                      [window |-> [served.window EXCEPT ![key] = w],
                       last |-> [answer EXCEPT
                                   !.next = FALSE, !.status = 429,
                                   !.error = "RATE_LIMIT_EXCEEDED",
                                   !.retryAfter =
                                       MathCeilDiv(requestData.resetTime - now,
                                                   60000)]]
           ELSE admit([requestData EXCEPT !.count = @ + 1])
        /\ UNCHANGED <<now, user, call, prev, users, nextId, twilioClient,
                       tokens, procs, response, gens, sent>>

\* The middleware validateRateLimit returns, for a request whose req.ip is
\* key
validateRateLimit(key) ==
    LET requestData == requests[key]
        w == WindowAt(served.window[key], now)
        answer == [key |-> key, next |-> TRUE, status |-> 0, error |-> "",
                   retryAfter |-> 0]
        admit(entry) ==
            /\ requests' = [requests EXCEPT ![key] = entry]
            /\ served' = [window |-> [served.window EXCEPT ![key] =
                                         [w EXCEPT !.admitted = @ + 1]],
                          last |-> answer]
    IN  /\ IF requestData = NoEntry
           THEN admit([count |-> 1, resetTime |-> now + windowMs])
           ELSE IF now > requestData.resetTime
           THEN admit([count |-> 1, resetTime |-> now + windowMs])
           ELSE IF requestData.count >= maxRequests
           THEN /\ UNCHANGED requests
                /\ served' =
                      [window |-> [served.window EXCEPT ![key] = w],
                       last |-> [answer EXCEPT
                                   !.next = FALSE, !.status = 429,
                                   !.error = "RATE_LIMIT_EXCEEDED",
                                   !.retryAfter =
                                       MathCeilDiv(requestData.resetTime - now,
                                                   60000)]]
           ELSE admit([requestData EXCEPT !.count = @ + 1])
        /\ UNCHANGED <<now, user, call, prev, users, nextId, twilioClient,
                       tokens, procs, response, gens, sent>>

TickLimiter ==
    /\ \E t \in LimiterInstants : t > now /\ now' = t
    /\ UNCHANGED <<user, call, prev, users, nextId, twilioClient, tokens,
                   procs, requests, served, sent, response, gens>>

NextLimiter ==
    \/ TickLimiter
    \/ \E key \in CallerKeys : validateRateLimit(key)

SpecLimiter == Init /\ [][NextLimiter]_vars

----------------------------------------------------------------------------
(* SpecSteps: register and request-code calls in flight together. A call   *)
(* gives way to the others at each await (findByPhoneNumber, save,          *)
(* sendVerificationSMS); what runs between two awaits is one step.          *)

\* The document after n more generateVerificationCode calls, all at time t
RECURSIVE AfterGenerations(_, _, _)
AfterGenerations(u, n, t) ==
    IF n = 0 THEN u
    ELSE generateVerificationCode(AfterGenerations(u, n - 1, t), t, 0).user

\* The collections the calls may start from: empty, or one account that
\* was registered and then asked for a code 0 to maxAttempts times
StoresAtStart ==
    {{}} \cup
    {{AfterGenerations(NewUser(1, p, TRUE), n, 0)} :
        p \in PhoneNumbers, n \in 0..maxAttempts}

\* user.save() of a loaded document: the paths whose value differs from
\* the loaded one are written to the stored document with that _id;
\* DocumentNotFoundError when it is gone
updateModified(coll, doc, loaded) ==
    IF \E u \in coll : u._id = doc._id
    THEN [ok |-> TRUE,
          users |-> {IF u._id # doc._id THEN u
                     ELSE [f \in DOMAIN u |->
                             IF doc[f] # loaded[f] THEN doc[f] ELSE u[f]]
                     : u \in coll}]
    ELSE [ok |-> FALSE, users |-> coll]

InitSteps ==
    /\ now = 0
    /\ users \in StoresAtStart
    /\ nextId = Cardinality(users) + 1
    /\ twilioClient \in BOOLEAN
    /\ response = NoResponse
    /\ gens = [p \in PhoneNumbers |-> NoGens]
    /\ tokens = {}
    /\ procs = [i \in Procs |-> NoProc]
    /\ requests = [key \in CallerKeys |-> NoEntry]
    /\ served = NoServed
    /\ sent = [p \in PhoneNumbers |-> <<>>]
    /\ user = NoUser
    /\ call = NoCall
    /\ prev = NoCall

\* What a step leaves alone besides the store and the calls
StepFrame ==
    UNCHANGED <<now, user, call, prev, twilioClient, response, gens, tokens,
                requests, served, sent>>

\* registerUser up to its save: findByPhoneNumber, then new User
registerFind(i, phone) ==
    LET pr == [NoProc EXCEPT !.op = "register", !.phoneNumber = phone,
                             !.log = <<"find">>]
        doc == NewUser(nextId, phone, TRUE)
    IN  /\ procs[i].pc = "idle"
        /\ nextId <= MaxId
        /\ IF findByPhoneNumber(phone) # {}
           THEN /\ procs' = [procs EXCEPT ![i] =
                               [pr EXCEPT !.pc = "done", !.status = 409,
                                          !.error = "USER_ALREADY_EXISTS"]]
                /\ UNCHANGED nextId
           ELSE /\ procs' = [procs EXCEPT ![i] =
                               [pr EXCEPT !.pc = "save", !.user = doc,
                                          !.loaded = doc, !.isNew = TRUE]]
                /\ nextId' = nextId + 1
        /\ UNCHANGED users
        /\ StepFrame

\* registerUser from its save on
registerSave(i, dbOk) ==
    LET pr == procs[i]
        ins == insertOne(users, pr.user)
    IN  /\ pr.op = "register"
        /\ pr.pc = "save"
        /\ IF ~dbOk
           THEN /\ procs' = [procs EXCEPT ![i] =
                               [pr EXCEPT !.pc = "done", !.status = 500,
                                          !.error = "REGISTRATION_FAILED"]]
                /\ UNCHANGED users
           ELSE IF ~ins.ok
           THEN /\ procs' = [procs EXCEPT ![i] =
                               [pr EXCEPT !.pc = "done", !.status = 409,
                                          !.error = "DUPLICATE_PHONE_NUMBER"]]
                /\ UNCHANGED users
           ELSE /\ procs' = [procs EXCEPT ![i] =
                               [pr EXCEPT !.pc = "done", !.status = 201,
                                          !.log = Append(@, "save")]]
                /\ users' = ins.users
        /\ UNCHANGED nextId
        /\ StepFrame

\* requestPhoneVerification up to its save: findByPhoneNumber, new User
\* when there is none, canRequestVerificationCode, generateVerificationCode
requestFind(i, phone, k) ==
    LET found == findByPhoneNumber(phone)
        isNew == found = {}
        u0 == IF isNew THEN NewUser(nextId, phone, TRUE)
                       ELSE CHOOSE u \in found : TRUE
        c == canRequestVerificationCode(u0, now)
        g == generateVerificationCode(c.user, now, k)
        pr == [NoProc EXCEPT !.op = "request", !.phoneNumber = phone,
                             !.loaded = u0, !.isNew = isNew,
                             !.admission = c.ret,
                             !.log = <<"find", "canRequest">>]
    IN  /\ procs[i].pc = "idle"
        /\ isNew => nextId <= MaxId
        /\ IF c.ret.threw
           THEN procs' = [procs EXCEPT ![i] =
                            [pr EXCEPT !.pc = "done", !.user = u0,
                                       !.status = 500,
                                       !.error = "VERIFICATION_REQUEST_FAILED"]]
           ELSE IF ~c.ret.canRequest
           THEN procs' = [procs EXCEPT ![i] =
                            [pr EXCEPT !.pc = "done", !.user = u0,
                                       !.status = 429,
                                       !.error = "RATE_LIMIT_EXCEEDED"]]
           ELSE procs' = [procs EXCEPT ![i] =
                            [pr EXCEPT !.pc = "save", !.user = g.user,
                                       !.log = Append(@, "generate")]]
        /\ nextId' = IF isNew THEN nextId + 1 ELSE nextId
        /\ UNCHANGED users
        /\ StepFrame

\* requestPhoneVerification that goes on to the transport without saving
requestSave_NoSave(i, dbOk) ==
    LET pr == procs[i]
    IN  /\ pr.op = "request"
        /\ pr.pc = "save"
        /\ procs' = [procs EXCEPT ![i] =
                       [pr EXCEPT !.pc = "send", !.log = Append(@, "save")]]
        /\ UNCHANGED <<users, nextId>>
        /\ StepFrame

\* requestPhoneVerification: await user.save()
requestSave(i, dbOk) ==
    LET pr == procs[i]
        sav == IF pr.isNew THEN insertOne(users, pr.user)
                           ELSE updateModified(users, pr.user, pr.loaded)
    IN  /\ pr.op = "request"
        /\ pr.pc = "save"
        /\ IF ~dbOk \/ ~sav.ok
           THEN /\ procs' = [procs EXCEPT ![i] =
                               [pr EXCEPT !.pc = "done", !.status = 500,
                                          !.error = "VERIFICATION_REQUEST_FAILED"]]
                /\ UNCHANGED users
           ELSE /\ procs' = [procs EXCEPT ![i] =
                               [pr EXCEPT !.pc = "send",
                                          !.log = Append(@, "save")]]
                /\ users' = sav.users
        /\ UNCHANGED nextId
        /\ StepFrame

\* requestPhoneVerification from await sendVerificationSMS on
requestSend(i, delivered) ==
    LET pr == procs[i]
        sms == sendVerificationSMS(pr.phoneNumber, pr.user.verificationCode,
                                   delivered)
    IN  /\ pr.op = "request"
        /\ pr.pc = "send"
        /\ procs' = [procs EXCEPT ![i] =
                       [pr EXCEPT !.pc = "done",
                                  !.sms = <<pr.user.verificationCode>>,
                                  !.log = Append(@, "send"),
                                  !.status = IF sms.success THEN 200 ELSE 500,
                                  !.error = sms.error]]
        /\ UNCHANGED <<users, nextId>>
        /\ StepFrame

\* confirmPhoneVerification up to its save: findByPhoneNumber, verifyCode
\* on the loaded document
confirmFind(i, phone, code) ==
    LET found == findByPhoneNumber(phone)
        u0 == IF found = {} THEN NoUser ELSE CHOOSE u \in found : TRUE
        v == verifyCode(u0, code, now)
        pr == [NoProc EXCEPT !.op = "confirm", !.phoneNumber = phone,
                             !.candidate = code, !.log = <<"find">>]
    IN  /\ procs[i].pc = "idle"
        /\ IF found = {}
           THEN procs' = [procs EXCEPT ![i] =
                            [pr EXCEPT !.pc = "done", !.status = 404,
                                       !.error = "USER_NOT_FOUND"]]
           ELSE procs' = [procs EXCEPT ![i] =
                            [pr EXCEPT !.pc = "save", !.loaded = u0,
                                       !.user = v.user,
                                       !.verified = v.ret.success,
                                       !.log = Append(@, "verify")]]
        /\ UNCHANGED <<users, nextId>>
        /\ StepFrame

\* confirmPhoneVerification from await user.save() on
confirmSave(i, dbOk) ==
    LET pr == procs[i]
        sav == updateModified(users, pr.user, pr.loaded)
    IN  /\ pr.op = "confirm"
        /\ pr.pc = "save"
        /\ IF ~dbOk \/ ~sav.ok
           THEN /\ procs' = [procs EXCEPT ![i] =
                               [pr EXCEPT !.pc = "done", !.status = 500,
                                          !.error = "VERIFICATION_CONFIRM_FAILED"]]
                /\ UNCHANGED users
           ELSE /\ procs' = [procs EXCEPT ![i] =
                               [pr EXCEPT !.pc = "done",
                                   !.log = Append(@, "save"),
                                   !.status = IF pr.verified THEN 200 ELSE 400,
                                   !.error = IF pr.verified THEN ""
                                             ELSE "INVALID_VERIFICATION_CODE"]]
                /\ users' = sav.users
        /\ UNCHANGED nextId
        /\ StepFrame

NextSteps ==
    \/ \E i \in Procs, phone \in PhoneNumbers : registerFind(i, phone)
    \/ \E i \in Procs, dbOk \in BOOLEAN : registerSave(i, dbOk)
    \/ \E i \in Procs, phone \in PhoneNumbers, k \in RandomSeeds :
          requestFind(i, phone, k)
    \/ \E i \in Procs, dbOk \in BOOLEAN : requestSave(i, dbOk)
    \/ \E i \in Procs, delivered \in BOOLEAN : requestSend(i, delivered)
    \/ \E i \in Procs, phone \in PhoneNumbers, code \in Candidates :
          confirmFind(i, phone, code)
    \/ \E i \in Procs, dbOk \in BOOLEAN : confirmSave(i, dbOk)

SpecSteps == InitSteps /\ [][NextSteps]_vars

\* SpecCalls: request-code and confirm-code calls as in SpecSteps, one
\* after another or in flight together, with the clock and the sweep
StepInstants ==
    {t \in {0, cooldownPeriod - 1, cooldownPeriod} : t <= MaxTime}

TickSteps ==
    /\ \E t \in StepInstants : t > now /\ now' = t
    /\ UNCHANGED <<user, call, prev, users, nextId, twilioClient, tokens,
                   procs, requests, served, sent, response, gens>>

NextCalls ==
    \/ \E i \in Procs, phone \in PhoneNumbers : requestFind(i, phone, 0)
    \/ \E i \in Procs, dbOk \in BOOLEAN : requestSave(i, dbOk)
    \/ \E i \in Procs : requestSend(i, TRUE)
    \/ \E i \in Procs, phone \in PhoneNumbers :
          confirmFind(i, phone, toString(verificationCodeNumber(0)))
    \/ \E i \in Procs, dbOk \in BOOLEAN : confirmSave(i, dbOk)
    \/ TickSteps
    \/ cleanupExpiredCodes

SpecCalls == InitSteps /\ [][NextCalls]_vars

\* SpecRandom: one generateVerificationCode call on a fresh document, the
\* random source sampled densely at both ends of [0, 1)
NextRandom ==
    \E k \in RandomSamples :
        user.verificationAttempts = 0 /\ CallGenerateVerificationCode(k)

SpecRandom == InitUser /\ [][NextRandom]_vars

----------------------------------------------------------------------------
(* Properties of the instance methods (SpecUser, SpecRandom) *)

HasCode(u) == u.verificationCode # NoCode /\ u.verificationCodeExpiry # NoDate

\* The number a sequence of decimal digits denotes
RECURSIVE DigitsValue(_)
DigitsValue(ds) ==
    IF ds = <<>> THEN 0
    ELSE 10 * DigitsValue(SubSeq(ds, 1, Len(ds) - 1)) + ds[Len(ds)]

\* C1: verifyCode called right after generateVerificationCode, with the code
\* it returned and before that code's expiry, succeeds; a second verifyCode
\* with the same code, no generation in between, fails with "no code found".
C1_VerifySucceedsExactlyOnce ==
    /\ (/\ call.method = "verifyCode"
        /\ prev.method = "generateVerificationCode"
        /\ call.arg = prev.ret
        /\ call.at < call.before.verificationCodeExpiry)
       => (call.ret.success /\ user.isPhoneVerified)
    /\ (/\ call.method = "verifyCode"
        /\ prev.method = "verifyCode"
        /\ prev.ret.success
        /\ call.arg = prev.arg)
       => (~call.ret.success /\ call.ret.message = NoCodeFound)

C1_Witness ==
    /\ call.method = "verifyCode"
    /\ prev.method = "verifyCode"
    /\ prev.ret.success
    /\ call.arg = prev.arg
    /\ call.ret.message = NoCodeFound
    /\ now > 0

\* C2: verifyCode on a document whose stored expiry is earlier than the
\* clock fails with "expired", never "mismatch", whatever the candidate,
\* and changes nothing (the document is not marked verified).
C2_ExpiredBeatsMismatch ==
    (/\ call.method = "verifyCode"
     /\ HasCode(call.before)
     /\ call.before.verificationCodeExpiry < call.at)
    => (/\ ~call.ret.success
        /\ call.ret.message = CodeExpired
        /\ user = call.before)

C2_Witness ==
    /\ call.method = "verifyCode"
    /\ HasCode(call.before)
    /\ call.before.verificationCodeExpiry < call.at
    /\ call.arg # call.before.verificationCode
    /\ ~call.before.isPhoneVerified
    /\ call.ret.message = CodeExpired

\* C3 as stated: verifyCode fails with "expired" whenever now >= expiry, so
\* at now = expiry the stored code itself is rejected and isPhoneVerified
\* is not set.
C3_ExpiredFromExpiryOn ==
    (/\ call.method = "verifyCode"
     /\ HasCode(call.before)
     /\ call.before.verificationCodeExpiry <= call.at)
    => (/\ ~call.ret.success
        /\ call.ret.message = CodeExpired
        /\ user.isPhoneVerified = call.before.isPhoneVerified)

\* C3 amended: verifyCode fails with "expired" exactly when now > expiry.
\* At now = expiry the code is still valid: the stored code is accepted and
\* isPhoneVerified is set, any other candidate is a mismatch.
C3_ExpiredOnlyAfterExpiry ==
    (call.method = "verifyCode" /\ HasCode(call.before)) =>
        /\ (call.ret.message = CodeExpired)
               <=> (call.before.verificationCodeExpiry < call.at)
        /\ (/\ call.before.verificationCodeExpiry = call.at
            /\ call.arg = call.before.verificationCode)
               => (call.ret.success /\ user.isPhoneVerified)
        /\ (/\ call.before.verificationCodeExpiry = call.at
            /\ call.arg # call.before.verificationCode)
               => call.ret.message = InvalidCode

C3_Witness ==
    /\ call.method = "verifyCode"
    /\ HasCode(call.before)
    /\ ~call.before.isPhoneVerified
    /\ call.before.verificationCodeExpiry = call.at
    /\ call.arg = call.before.verificationCode
    /\ call.ret.success
    /\ user.isPhoneVerified

\* C4: with verificationAttempts < 5, canRequestVerificationCode allows the
\* request whatever lastVerificationAttempt, the outstanding code and
\* isPhoneVerified are, and leaves the document as it was.
C4_BelowCapAlwaysAllowed ==
    (/\ call.method = "canRequestVerificationCode"
     /\ call.before.verificationAttempts < 5)
    => (/\ call.ret.canRequest
        /\ ~call.ret.threw
        /\ user.verificationAttempts = call.before.verificationAttempts
        /\ user = call.before)

C4_Witness ==
    /\ call.method = "canRequestVerificationCode"
    /\ call.before.verificationAttempts = 4
    /\ call.before.isPhoneVerified
    /\ HasCode(call.before)
    /\ call.at - call.before.lastVerificationAttempt < cooldownPeriod
    /\ call.ret.canRequest

\* C9: a generateVerificationCode call at time t adds exactly 1 to
\* verificationAttempts, sets lastVerificationAttempt to t and
\* verificationCodeExpiry to t + the configured TTL, stores the code it
\* returns, and touches nothing else; it goes through whatever the counter
\* says (no admission check of its own).
C9_GenerateEffect ==
    (call.method = "generateVerificationCode") =>
        /\ user.verificationAttempts = call.before.verificationAttempts + 1
        /\ user.lastVerificationAttempt = call.at
        /\ user.verificationCodeExpiry = call.at + VERIFICATION_CODE_EXPIRY
        /\ user.verificationCode = call.ret
        /\ call.ret # NoCode
        /\ user.isPhoneVerified = call.before.isPhoneVerified
        /\ user.isActive = call.before.isActive
        /\ user.phoneNumber = call.before.phoneNumber
        /\ user._id = call.before._id

C9_Witness ==
    /\ call.method = "generateVerificationCode"
    /\ call.before.verificationAttempts = maxAttempts
    /\ call.at - call.before.lastVerificationAttempt < cooldownPeriod
    /\ HasCode(call.before)
    /\ call.before.verificationCodeExpiry < call.at + VERIFICATION_CODE_EXPIRY
    /\ call.before.verificationCode # call.ret
    /\ user.verificationAttempts = maxAttempts + 1

\* C10: every code generateVerificationCode produces is an integer in
\* 100000..999999 written as exactly 6 decimal digits, the first not 0,
\* for every value of the random source in [0, 1).
C10_SixDigitCode ==
    (call.method = "generateVerificationCode") =>
        /\ Len(call.ret) = 6
        /\ \A i \in 1..Len(call.ret) : call.ret[i] \in 0..9
        /\ call.ret[1] # 0
        /\ DigitsValue(call.ret) \in 100000..999999
        /\ user.verificationCode = call.ret

C10_Witness ==
    /\ call.method = "generateVerificationCode"
    /\ call.arg = <<RandomDenominator - 1>>
    /\ call.ret = <<9, 9, 9, 9, 9, 9>>

----------------------------------------------------------------------------
(* Properties of the handlers (Spec) *)

\* C5: after exactly 5 code generations for one phone number within 15
\* minutes, counted from verificationAttempts = 0, a 6th request-code call
\* made less than 15 minutes after the 5th generation is denied
\* (RATE_LIMIT_EXCEEDED) with at least 1 minute to wait, generates no code
\* and sends no message.
C5_SixthRequestDenied ==
    [][\A p \in PhoneNumbers :
         (/\ RequestCode(p)
          /\ gens[p].count = 5
          /\ gens[p].lastAt - gens[p].firstAt <= cooldownPeriod
          /\ now - gens[p].lastAt < cooldownPeriod)
         => (/\ response'.status = 429
             /\ response'.error = "RATE_LIMIT_EXCEEDED"
             /\ response'.admission.remainingTime >= 1
             /\ response'.sms = <<>>
             /\ ~response'.saved
             /\ users' = users)]_vars

\* C6: for a stored account with verificationAttempts = 5, a request-code
\* call made 15 minutes or more (exactly 15 minutes included) after
\* lastVerificationAttempt passes the admission check, which resets the
\* counter to 0, so that the call stores verificationAttempts = 1.
C6_CooldownElapsedResets ==
    [][\A p \in PhoneNumbers : \A u \in findByPhoneNumber(p) :
         (/\ RequestCode(p)
          /\ u.verificationAttempts = 5
          /\ u.lastVerificationAttempt # NoDate
          /\ now - u.lastVerificationAttempt >= cooldownPeriod)
         => (/\ response'.admission.canRequest
             /\ response'.attemptsAfterAdmission = 0
             /\ response'.status # 429
             /\ response'.saved =>
                  \E v \in users' : /\ v._id = u._id
                                    /\ v.verificationAttempts = 1
                                    /\ v.lastVerificationAttempt = now)]_vars

C6_Witness ==
    /\ response.op = "request"
    /\ response.attemptsBefore = 5
    /\ response.admission.canRequest
    /\ response.attemptsAfterAdmission = 0
    /\ response.saved
    /\ now = cooldownPeriod
    /\ \E u \in users : /\ u.verificationAttempts = 1
                        /\ u.lastVerificationAttempt = now

\* C7: the cooldown runs from the generation that brought the counter to 5.
\* A request-code call denied during the cooldown changes nothing in the
\* store (neither lastVerificationAttempt nor verificationAttempts), and a
\* request-code call made 15 minutes or more after that 5th generation is
\* admitted, however many requests were denied in between.
C7_DeniedRequestsDoNotExtendCooldown ==
    [][\A p \in PhoneNumbers :
         RequestCode(p) =>
           /\ (response'.status = 429) => (users' = users /\ gens' = gens)
           /\ (gens[p].count = 5 /\ now - gens[p].lastAt >= cooldownPeriod)
                => (response'.status # 429 /\ response'.admission.canRequest)]_vars

C7_Witness ==
    /\ response.op = "request"
    /\ response.status = 429
    /\ response.admission.remainingTime = 1
    /\ \E u \in users :
          /\ u.phoneNumber = response.phoneNumber
          /\ u.verificationAttempts = 5
          /\ gens[u.phoneNumber].count = 5
          /\ u.lastVerificationAttempt = gens[u.phoneNumber].lastAt
          /\ now > u.lastVerificationAttempt

C11_CodeAndExpiryTogether ==
    \A u \in users :
        (u.verificationCode = NoCode) <=> (u.verificationCodeExpiry = NoDate)

\* An account the cleanup sweep has cleared (a generation happened, no
\* verification did, and neither field is left), and the latest request
\* stored both fields together before that
C11_Witness ==
    /\ response.op = "request"
    /\ response.saved
    /\ \E u \in users :
          /\ u.phoneNumber = response.phoneNumber
          /\ u.verificationAttempts >= 1
          /\ ~u.isPhoneVerified
          /\ u.verificationCode = NoCode
          /\ u.verificationCodeExpiry = NoDate

C13_VerifiedIsSticky ==
    [][\A u \in users :
         u.isPhoneVerified
         => \E v \in users' : /\ v.phoneNumber = u.phoneNumber
                               /\ v.isPhoneVerified]_vars

\* C14: an account, once stored, is never removed from the store, by no
\* handler, sweep or store-side rule, whether or not its code has expired.
C14_AccountNeverRemoved ==
    [][\A u \in users : \E v \in users' : v._id = u._id]_vars


\* C17: when the transport reports failure, the request-code call answers
\* with a failure (status 500, the transport's error, no code in the
\* answer) while the code it generated stays stored with expiry = now + TTL
\* and verificationAttempts incremented; clock, sweep and store expiry leave
\* a code alone until its expiry has passed, and a confirm-code with that
\* code up to its expiry succeeds.
C17_TransportFailureKeepsCode ==
    [][\A p \in PhoneNumbers :
         /\ (response'.sms # <<>> /\ response'.status # 200 /\ RequestCode(p))
              => (/\ response'.status = 500
                  /\ response'.error = "SMS_SEND_FAILED"
                  /\ response'.verificationCode = NoCode
                  /\ response'.token = NoToken
                  /\ \E v \in users' :
                        /\ v.phoneNumber = p
                        /\ v.verificationCode = response'.sms[1]
                        /\ v.verificationCodeExpiry
                             = now + VERIFICATION_CODE_EXPIRY
                        /\ v.verificationAttempts
                             = response'.attemptsAfterAdmission + 1
                        /\ v.lastVerificationAttempt = now)
         /\ (Tick \/ TtlMonitor \/ cleanupExpiredCodes)
              => \A u \in findByPhoneNumber(p) :
                    (HasCode(u) /\ now' <= u.verificationCodeExpiry)
                    => u \in users'
         /\ \A u \in findByPhoneNumber(p) :
              (/\ response.op = "request"
               /\ response.status = 500
               /\ response.sms # <<>>
               /\ response.phoneNumber = p
               /\ HasCode(u)
               /\ now <= u.verificationCodeExpiry
               /\ confirmPhoneVerification(p, response.sms[1], TRUE))
              => (/\ response'.status = 200
                  /\ \E v \in users' : v._id = u._id /\ v.isPhoneVerified)]_vars

\* The transport failed, the clock moved on, the code is still stored and
\* not yet expired
C17_Witness ==
    /\ response.op = "request"
    /\ response.status = 500
    /\ response.error = "SMS_SEND_FAILED"
    /\ now > 0
    /\ \E u \in users :
          /\ u.phoneNumber = response.phoneNumber
          /\ <<u.verificationCode>> = response.sms
          /\ now < u.verificationCodeExpiry
          /\ u.verificationAttempts >= 1
          /\ ~u.isPhoneVerified

\* C18: the answer of a request-code call carries the verification code
\* exactly when the call succeeded and the transport ran in mock mode (no
\* Twilio client); that code is the one stored for the account, and a
\* confirm-code with it up to its expiry succeeds and sets isPhoneVerified;
\* with a Twilio client no answer of any handler carries the code.
C18_CodeInResponseOnlyInMockMode ==
    [][/\ twilioClient => response'.verificationCode = NoCode
       /\ \A p \in PhoneNumbers :
            /\ (response'.op = "request" /\ RequestCode(p))
                 => /\ (response'.verificationCode # NoCode)
                          <=> (response'.status = 200 /\ ~twilioClient)
                    /\ (response'.verificationCode # NoCode)
                          => (/\ <<response'.verificationCode>> = response'.sms
                              /\ \E v \in users' :
                                    /\ v.phoneNumber = p
                                    /\ v.verificationCode
                                         = response'.verificationCode)
            /\ \A u \in findByPhoneNumber(p) :
                 (/\ response.op = "request"
                  /\ response.status = 200
                  /\ response.verificationCode # NoCode
                  /\ response.phoneNumber = p
                  /\ HasCode(u)
                  /\ now <= u.verificationCodeExpiry
                  /\ confirmPhoneVerification(p, response.verificationCode,
                                              TRUE))
                 => (/\ response'.status = 200
                     /\ \E v \in users' :
                           v._id = u._id /\ v.isPhoneVerified)]_vars

\* A mock-mode answer that carries the stored code of an unverified account
C18_Witness ==
    /\ ~twilioClient
    /\ response.op = "request"
    /\ response.status = 200
    /\ Len(response.verificationCode) = 6
    /\ \E u \in users :
          /\ u.phoneNumber = response.phoneNumber
          /\ u.verificationCode = response.verificationCode
          /\ ~u.isPhoneVerified
          /\ now < u.verificationCodeExpiry

\* The same request answered through Twilio: the code is stored and sent,
\* the answer does not carry it
C18_WitnessTwilio ==
    /\ twilioClient
    /\ response.op = "request"
    /\ response.status = 200
    /\ response.verificationCode = NoCode
    /\ response.sms # <<>>

\* C19: a confirm-code call puts a credential in its answer exactly when
\* verifyCode succeeded and the verified account was written to the store;
\* that credential names the account and carries isPhoneVerified = true;
\* every failed confirm (unknown phone number, no code, expired, mismatch,
\* failed save) answers without a credential.
C19_ConfirmIssuesCredentialIffVerified ==
    [][\A p \in PhoneNumbers, code \in Candidates, dbOk \in BOOLEAN :
         (response'.op = "confirm" /\ confirmPhoneVerification(p, code, dbOk))
         => LET found == findByPhoneNumber(p)
                issued == response'.token # NoToken
            IN  /\ issued <=>
                     \E u \in found :
                        /\ verifyCode(u, code, now).ret.success
                        /\ verifyCode(u, code, now).user \in users'
                /\ issued <=> (response'.status = 200)
                /\ issued =>
                     /\ response'.token.isPhoneVerified
                     /\ response'.token.phoneNumber = p
                     /\ \E v \in users' :
                           /\ v._id = response'.token.userId
                           /\ v.phoneNumber = p
                           /\ v.isPhoneVerified
                /\ (found = {}) => (response'.status = 404 /\ ~issued)
                /\ (\E u \in found : ~verifyCode(u, code, now).ret.success)
                     => (response'.status \in {400, 500} /\ ~issued)]_vars

\* A confirm-code answered with a credential for the account it verified
C19_Witness ==
    /\ response.op = "confirm"
    /\ response.status = 200
    /\ response.token.isPhoneVerified
    /\ \E u \in users :
          /\ u._id = response.token.userId
          /\ u.phoneNumber = response.token.phoneNumber
          /\ u.isPhoneVerified
          /\ ~HasCode(u)

----------------------------------------------------------------------------
(* Properties of calls in flight together (SpecSteps) *)

\* The steps of an admitted request-code call, in order
RequestOrder == <<"find", "canRequest", "generate", "save", "send">>

InLog(i, step) == \E n \in 1..Len(procs[i].log) : procs[i].log[n] = step

\* C15: at most one account per phone number in every reachable state, also
\* when register and request-code calls for the same unseen number run
\* together: a call whose insert finds the number taken gets a failed
\* result (409 DUPLICATE_PHONE_NUMBER from register, 500 from request-code)
\* and stores nothing.
C15_OneAccountPerPhoneNumber ==
    [][/\ \A p \in PhoneNumbers :
            Cardinality({u \in users' : u.phoneNumber = p}) <= 1
       /\ \A i \in Procs :
            LET taken == findByPhoneNumber(procs[i].phoneNumber) # {}
            IN  /\ (registerSave(i, TRUE) /\ taken)
                     => (/\ procs'[i].status = 409
                         /\ procs'[i].error = "DUPLICATE_PHONE_NUMBER"
                         /\ users' = users)
                /\ (requestSave(i, TRUE) /\ procs[i].isNew /\ taken)
                     => (/\ procs'[i].status = 500
                         /\ procs'[i].error = "VERIFICATION_REQUEST_FAILED"
                         /\ procs'[i].sms = <<>>
                         /\ users' = users)]_vars

\* Two calls constructed an account for the same unseen number; one stored
\* it, the other was refused by the unique index
C15_Witness ==
    \E i, j \in Procs :
        /\ i # j
        /\ procs[i].isNew /\ procs[j].isNew
        /\ procs[i].phoneNumber = procs[j].phoneNumber
        /\ procs[i].op = "register" /\ procs[j].op = "request"
        /\ InLog(i, "save")
        /\ procs[j].pc = "done" /\ procs[j].status = 500
        /\ users = {procs[i].user}

\* C16: a request-code call takes its steps in the order admission check,
\* code generation, save, transport send: the transport gets the generated
\* code, only in a call the admission check allowed and only after that
\* call's save wrote the account; a call the admission check denies stops
\* there, having saved and sent nothing.
C16_RequestStepsInOrder ==
    [][\A i \in Procs :
         LET pr == procs'[i]
         IN  (pr.op = "request") =>
               /\ pr.log = SubSeq(RequestOrder, 1, Len(pr.log))
               /\ InLog(i, "generate")' => pr.admission.canRequest
               /\ (pr.sms # <<>>) <=> InLog(i, "send")'
               /\ (pr.sms # <<>>) => pr.sms = <<pr.user.verificationCode>>
               /\ (~pr.admission.canRequest /\ ~pr.admission.threw)
                    => (/\ pr.pc = "done"
                        /\ pr.status = 429
                        /\ pr.log = <<"find", "canRequest">>
                        /\ pr.user = pr.loaded
                        /\ procs[i] # pr => users' = users)
               /\ (~InLog(i, "save") /\ InLog(i, "save")')
                    => \E v \in users' :
                          /\ v._id = pr.user._id
                          /\ \A f \in DOMAIN v :
                                pr.user[f] # pr.loaded[f] => v[f] = pr.user[f]
                          /\ pr.isNew => v = pr.user]_vars

\* One call went through all five steps while another was denied
C16_Witness ==
    \E i, j \in Procs :
        /\ procs[i].op = "request"
        /\ procs[i].log = RequestOrder
        /\ procs[i].status = 200
        /\ procs[j].op = "request"
        /\ procs[j].status = 429
        /\ procs[j].log = <<"find", "canRequest">>


----------------------------------------------------------------------------
(* Properties of the credentials (SpecAuth) *)

\* C20: a credential signed by register, login, confirm-code or
\* refresh-token carries the phoneNumber and isPhoneVerified the account has
\* when the handler answers, and what clients hold never changes
\* afterwards: a credential once kept stays as it was signed, whatever
\* happens to the account later (a later verification included).
C20_CredentialIsSnapshotAtIssuance ==
    [][/\ (response'.token # NoToken /\ IssuingCall)
            => \E v \in users' :
                  /\ v._id = response'.token.userId
                  /\ v.phoneNumber = response'.token.phoneNumber
                  /\ v.isPhoneVerified = response'.token.isPhoneVerified
       /\ tokens \subseteq tokens'
       /\ \A t \in tokens' \ tokens : t = response.token]_vars

\* A client holds the credential signed before the verification (claim
\* false, account now verified) next to the refreshed one (claim true)
C20_Witness ==
    /\ response.op = "refresh"
    /\ response.status = 200
    /\ response.token.isPhoneVerified
    /\ response.token \in tokens
    /\ \E t \in tokens, u \in users :
          /\ u._id = t.userId
          /\ t.userId = response.token.userId
          /\ ~t.isPhoneVerified
          /\ u.isPhoneVerified

----------------------------------------------------------------------------
(* Claims about the protected routes (SpecGate) *)

\* The credential was signed by this server and its lifetime has not run out
\* at the clock reading of the request
LiveCredential(cred) ==
    /\ cred.kind = "signed"
    /\ now < cred.token.exp * 1000

\* The account the credential names is in the store and not disabled
ActiveAccountOf(cred) ==
    \E u \in users : u._id = cred.token.userId /\ u.isActive

\* A request on a route that authenticateToken protects
ProtectedCall(cred) ==
    \E dbOk \in BOOLEAN : getUserProfile(cred, dbOk) \/ dashboard(cred, dbOk)

\* C21: authenticateToken passes a request on to the protected handler only
\* if its credential has a valid signature and an unexpired lifetime and the
\* account it names is in the store with isActive = true at the time of the
\* request; a valid credential of a missing or disabled account is answered
\* with 401.
C21_PassesOnlyLiveCredentialOfActiveAccount ==
    [][LET cred == response'.credential
       IN  response'.op \in {"profile", "dashboard"} /\ ProtectedCall(cred) =>
              /\ response'.next => LiveCredential(cred) /\ ActiveAccountOf(cred)
              /\ LiveCredential(cred) /\ ~ActiveAccountOf(cred)
                    => response'.status = 401 /\ ~response'.next]_vars

\* A credential still in its lifetime is turned away because its account was
\* removed from the store
C21_Witness ==
    /\ response.op = "profile"
    /\ response.status = 401
    /\ LiveCredential(response.credential)
    /\ findById(response.credential.token.userId) = {}

\* A credential still in its lifetime is turned away because its account was
\* disabled
C21_WitnessDisabled ==
    /\ response.op = "profile"
    /\ response.status = 401
    /\ LiveCredential(response.credential)
    /\ \E u \in findById(response.credential.token.userId) : ~u.isActive

\* The account the credential names is stored with isPhoneVerified = true
StoredVerified(cred) ==
    \E u \in users : u._id = cred.token.userId /\ u.isPhoneVerified

\* C22: the dashboard handler is reached only when the stored account has
\* isPhoneVerified = true, whatever the isPhoneVerified claim of the
\* credential: an authenticated request of a verified account reaches it
\* even with a credential signed before the verification, and a request of
\* an unverified account is answered with 403 PHONE_NOT_VERIFIED.
C22_DashboardFollowsStoredVerification ==
    [][LET cred == response'.credential
       IN  \A dbOk \in BOOLEAN :
              response'.op = "dashboard" /\ dashboard(cred, dbOk) =>
                  /\ response'.next => StoredVerified(cred)
                  /\ dbOk /\ LiveCredential(cred) /\ ActiveAccountOf(cred) =>
                        IF StoredVerified(cred)
                        THEN response'.next /\ response'.status = 200
                        ELSE /\ ~response'.next
                             /\ response'.status = 403
                             /\ response'.error = "PHONE_NOT_VERIFIED"]_vars

\* A credential signed before the verification reaches the dashboard
C22_Witness ==
    /\ response.op = "dashboard"
    /\ response.next
    /\ ~response.credential.token.isPhoneVerified

\* A request of an unverified account is turned away
C22_WitnessUnverified ==
    /\ response.op = "dashboard"
    /\ response.status = 403
    /\ LiveCredential(response.credential)
    /\ ~StoredVerified(response.credential)

\* The lifetime of the credential's token has run out at the clock reading
\* of the request
Expired(cred) == now >= cred.token.exp * 1000

\* C23 as stated: an expired credential is answered TOKEN_EXPIRED, one that
\* cannot be parsed as a token MALFORMED_TOKEN, and every other credential
\* that is turned away INVALID_TOKEN.
C23_UnparseableOnlyIsMalformed ==
    [][LET cred == response'.credential
       IN  /\ response'.op \in {"profile", "dashboard"}
           /\ ProtectedCall(cred)
           /\ cred.kind # "missing"
           /\ response'.status = 401
           => response'.error =
                  IF cred.kind = "garbage" THEN "MALFORMED_TOKEN"
                  ELSE IF cred.kind = "signed" /\ Expired(cred)
                  THEN "TOKEN_EXPIRED"
                  ELSE "INVALID_TOKEN"]_vars

\* C23: a credential that is turned away gets exactly one of three kinds:
\* MALFORMED_TOKEN when it cannot be parsed as a token or its signature
\* does not verify, TOKEN_EXPIRED when its signature verifies and its
\* lifetime has run out (and such a credential is always turned away), and
\* INVALID_TOKEN otherwise, that is when the account lookup fails or finds
\* no active account.
C23_FailureKinds ==
    [][LET cred == response'.credential
       IN  /\ response'.op \in {"profile", "dashboard"}
           /\ ProtectedCall(cred)
           /\ cred.kind # "missing"
           => /\ cred.kind = "signed" /\ Expired(cred)
                    => response'.status = 401
              /\ response'.status = 401 =>
                    response'.error =
                        IF cred.kind \in {"garbage", "forged"}
                        THEN "MALFORMED_TOKEN"
                        ELSE IF Expired(cred) THEN "TOKEN_EXPIRED"
                        ELSE "INVALID_TOKEN"]_vars

\* A token whose signature does not verify is reported as malformed
C23_Witness ==
    /\ response.op = "profile"
    /\ response.credential.kind = "forged"
    /\ response.status = 401
    /\ response.error = "MALFORMED_TOKEN"

C23_WitnessExpired ==
    /\ response.op = "profile"
    /\ response.credential.kind = "signed"
    /\ response.error = "TOKEN_EXPIRED"

C23_WitnessMalformed ==
    /\ response.op = "profile"
    /\ response.credential.kind = "garbage"
    /\ response.error = "MALFORMED_TOKEN"

C23_WitnessInvalid ==
    /\ response.op = "profile"
    /\ response.credential.kind = "signed"
    /\ response.error = "INVALID_TOKEN"
    /\ ActiveAccountOf(response.credential)

\* Seconds the credential's token still has to live, the clock read in whole
\* seconds as the token's exp is
RemainingLifetime(cred) == cred.token.exp - (now \div 1000)

\* C24: for a request whose credential was authenticated (req.tokenData and
\* req.user are set), refreshTokenIfNeeded puts a fresh credential carrying
\* the stored account's current state in X-New-Token exactly when the
\* presented credential's remaining lifetime is below 3600 s, none at 3600 s
\* or more, and it passes the request on in every case.
C24_RefreshBelowOneHour ==
    [][LET cred == response'.credential
       IN  \A dbOk \in BOOLEAN :
              /\ response'.op = "refreshIfNeeded"
              /\ refreshTokenIfNeeded(cred, dbOk)
              => /\ response'.next
                 /\ (response'.newToken # NoToken) <=>
                        /\ dbOk
                        /\ LiveCredential(cred)
                        /\ ActiveAccountOf(cred)
                        /\ RemainingLifetime(cred) < 3600
                 /\ response'.newToken # NoToken =>
                        \E u \in users :
                           /\ u._id = cred.token.userId
                           /\ response'.newToken.userId = u._id
                           /\ response'.newToken.phoneNumber = u.phoneNumber
                           /\ response'.newToken.isPhoneVerified
                                 = u.isPhoneVerified
                           /\ response'.newToken.exp
                                 = (now \div 1000) + JWT_EXPIRES_IN]_vars

\* A credential with less than an hour left is renewed and the request goes on
C24_Witness ==
    /\ response.op = "refreshIfNeeded"
    /\ response.next
    /\ response.newToken # NoToken
    /\ RemainingLifetime(response.credential) < 3600

\* A credential with exactly an hour left is not renewed
C24_WitnessOneHour ==
    /\ response.op = "refreshIfNeeded"
    /\ response.next
    /\ response.newToken = NoToken
    /\ LiveCredential(response.credential)
    /\ ActiveAccountOf(response.credential)
    /\ RemainingLifetime(response.credential) = 3600

\* The renewed credential carries a state the presented one did not
C24_WitnessCurrentState ==
    /\ response.op = "refreshIfNeeded"
    /\ response.newToken # NoToken
    /\ response.newToken.isPhoneVerified
    /\ ~response.credential.token.isPhoneVerified

----------------------------------------------------------------------------
(* Claims about request-code and confirm-code calls in flight together *)

\* C25: under any interleaving of request-code and confirm-code calls on one
\* account, a confirm-code succeeds only with a candidate equal to the code
\* the store holds at the moment the confirm's result is written: a code
\* that a concurrent generation has replaced never verifies the account, and
\* a successful confirm never erases a code it did not check.
C25_ConfirmWritesAgainstStoredCode ==
    [][\A i \in Procs :
          /\ procs[i].op = "confirm" /\ procs[i].pc = "save"
          /\ procs'[i].pc = "done" /\ procs'[i].status = 200
          => \A u \in findByPhoneNumber(procs[i].phoneNumber) :
                u.verificationCode = procs[i].candidate]_vars

\* A confirm-code has verified the account with a code that a concurrent
\* request-code had replaced in the store, and has erased the newer code
C25_StaleCodeVerified ==
    \E i, j \in Procs :
       /\ procs[i].op = "confirm" /\ procs[i].status = 200
       /\ procs[j].op = "request" /\ procs[j].pc \in {"send", "done"}
       /\ "save" \in {procs[j].log[n] : n \in DOMAIN procs[j].log}
       /\ procs[j].user.verificationCode # procs[i].candidate
       /\ \A u \in findByPhoneNumber(procs[i].phoneNumber) :
             u.isPhoneVerified /\ u.verificationCode = NoCode

----------------------------------------------------------------------------
(* Claims about store failures, the cleanup sweep and code replacement *)

\* C26: when user.save() fails in request-code or in confirm-code the call
\* is answered with a failure (status 500), the store keeps the values it
\* had before the call, request-code does not call the transport and
\* confirm-code issues no credential.
C26_FailedSaveChangesNothing ==
    [][\A p \in PhoneNumbers :
          /\ (/\ response'.op = "request"
               /\ response'.admission.canRequest
               /\ \E k \in RandomSeeds, delivered \in BOOLEAN :
                     requestPhoneVerification(p, k, FALSE, delivered))
              => /\ response'.status = 500
                 /\ response'.error = "VERIFICATION_REQUEST_FAILED"
                 /\ users' = users
                 /\ response'.sms = <<>>
                 /\ response'.verificationCode = NoCode
          /\ (/\ response'.op = "confirm"
               /\ findByPhoneNumber(p) # {}
               /\ \E code \in Candidates :
                     confirmPhoneVerification(p, code, FALSE))
              => /\ response'.status = 500
                 /\ response'.error = "VERIFICATION_CONFIRM_FAILED"
                 /\ users' = users
                 /\ response'.token = NoToken]_vars

\* A request-code whose save failed after a code was generated
C26_Witness ==
    /\ response.op = "request"
    /\ response.admission.canRequest
    /\ response.status = 500
    /\ ~response.saved
    /\ response.sms = <<>>
    /\ \A u \in findByPhoneNumber(response.phoneNumber) :
          u.verificationAttempts = response.attemptsBefore

\* A confirm-code whose save failed
C26_WitnessConfirm ==
    /\ response.op = "confirm"
    /\ response.status = 500
    /\ response.token = NoToken
    /\ \E u \in findByPhoneNumber(response.phoneNumber) :
          u.verificationCode # NoCode /\ ~u.isPhoneVerified

\* The account's code has an expiry earlier than the clock
CodeExpiredAt(u, t) ==
    u.verificationCodeExpiry # NoDate /\ u.verificationCodeExpiry < t

\* C27: the cleanup sweep clears verificationCode and verificationCodeExpiry
\* of exactly the accounts whose expiry is earlier than the sweep time,
\* leaves every other account as it was and changes no other field; and a
\* confirm-code on an expired code fails, without verifying the account,
\* whether the sweep has cleared that code or not.
C27_SweepClearsExpiredCodesOnly ==
    [][/\ cleanupExpiredCodes =>
             /\ Cardinality(users') = Cardinality(users)
             /\ \A u \in users :
                   \E w \in users' :
                      /\ w._id = u._id
                      /\ w.phoneNumber = u.phoneNumber
                      /\ w.isActive = u.isActive
                      /\ w.isPhoneVerified = u.isPhoneVerified
                      /\ w.verificationAttempts = u.verificationAttempts
                      /\ w.lastVerificationAttempt = u.lastVerificationAttempt
                      /\ IF CodeExpiredAt(u, now)
                         THEN /\ w.verificationCode = NoCode
                              /\ w.verificationCodeExpiry = NoDate
                         ELSE /\ w.verificationCode = u.verificationCode
                              /\ w.verificationCodeExpiry
                                    = u.verificationCodeExpiry
       /\ \A p \in PhoneNumbers :
             /\ response'.op = "confirm"
             /\ \E u \in findByPhoneNumber(p) :
                   \/ CodeExpiredAt(u, now)
                   \/ /\ u.verificationCode = NoCode
                      /\ u.verificationAttempts > 0
             /\ ConfirmCode(p)
             => /\ response'.status \in {400, 500}
                /\ response'.token = NoToken
                /\ \A u \in findByPhoneNumber(p), w \in users' :
                      w._id = u._id => w.isPhoneVerified = u.isPhoneVerified]_vars

\* The sweep has cleared the expired code of an account that never confirmed
C27_Witness ==
    \E u \in users :
       /\ ~u.isPhoneVerified
       /\ u.verificationAttempts > 0
       /\ u.lastVerificationAttempt + VERIFICATION_CODE_EXPIRY < now
       /\ u.verificationCode = NoCode
       /\ u.verificationCodeExpiry = NoDate

\* A confirm-code fails on a code the sweep has cleared
C27_WitnessConfirmAfterSweep ==
    /\ response.op = "confirm"
    /\ response.status = 400
    /\ response.message = NoCodeFound
    /\ \E u \in findByPhoneNumber(response.phoneNumber) :
          ~u.isPhoneVerified /\ u.verificationAttempts > 0

\* A confirm-code fails on an expired code the sweep has not cleared
C27_WitnessConfirmBeforeSweep ==
    /\ response.op = "confirm"
    /\ response.status = 400
    /\ response.message = CodeExpired
    /\ \E u \in findByPhoneNumber(response.phoneNumber) :
          CodeExpiredAt(u, now)

----------------------------------------------------------------------------
(* Claims about the per-caller limiter (SpecLimiter) *)

\* C28: the limiter admits a request of a caller key exactly when fewer than
\* maxRequests requests of that key were admitted in the window the request
\* falls in, the window being windowMs long from the key's first request of
\* it; every other request is answered 429 RATE_LIMIT_EXCEEDED; so no more
\* than maxRequests requests of one key are admitted in one window, and the
\* answer to one key depends on no request of another key, whose entry the
\* request leaves alone.
C28_AtMostMaxRequestsPerWindow ==
    [][\A key \in CallerKeys :
          served'.last.key = key /\ validateRateLimit(key) =>
              LET w == WindowAt(served.window[key], now)
              IN  /\ served'.last.next <=> w.admitted < maxRequests
                  /\ ~served'.last.next =>
                        /\ served'.last.status = 429
                        /\ served'.last.error = "RATE_LIMIT_EXCEEDED"
                  /\ served'.window[key].admitted <= maxRequests
                  /\ \A other \in CallerKeys \ {key} :
                        /\ requests'[other] = requests[other]
                        /\ served'.window[other] = served.window[other]]_vars

\* A caller is turned away after maxRequests admitted requests in its
\* window while the other caller is still admitted
C28_Witness ==
    \E key \in CallerKeys, other \in CallerKeys :
       /\ served.last.key = key
       /\ served.last.error = "RATE_LIMIT_EXCEEDED"
       /\ served.window[key].admitted = maxRequests
       /\ served.window[other].admitted \in 1 .. (maxRequests - 1)

\* A caller is admitted again in a window opened after the first one ended
C28_WitnessNextWindow ==
    \E key \in CallerKeys :
       /\ served.last.key = key
       /\ served.last.next
       /\ served.window[key].start > windowMs
       /\ requests[key].count = 1

\* C29: after two generations on one account that produced codes C1 then
\* C2 with C1 # C2, the code and the expiry in force are those of the second
\* generation; verifyCode with C1 never succeeds, and while C2 is unexpired
\* (so also before C1's own expiry) it answers with the mismatch outcome,
\* while verifyCode with C2 succeeds.
C29_OnlyLatestCodeVerifies ==
    /\ call.method = "generateVerificationCode"
       /\ call.before.verificationCode # NoCode
       => /\ user.verificationCode = call.ret
          /\ user.verificationCodeExpiry = call.at + VERIFICATION_CODE_EXPIRY
    /\ /\ call.method = "verifyCode"
       /\ prev.method = "generateVerificationCode"
       /\ prev.replaced # NoCode
       /\ prev.replaced # prev.ret
       => /\ call.before.verificationCode = prev.ret
          /\ call.arg = prev.replaced =>
                /\ ~call.ret.success
                /\ user = call.before
                /\ call.at <= call.before.verificationCodeExpiry
                      => call.ret.message = InvalidCode
          /\ call.arg = prev.ret
                /\ call.at <= call.before.verificationCodeExpiry
                => call.ret.success

\* The earlier of two codes is refused as a mismatch before its own expiry,
\* the expiry in force being the one of the later generation
C29_Witness ==
    /\ call.method = "verifyCode"
    /\ prev.method = "generateVerificationCode"
    /\ prev.replaced # NoCode
    /\ call.arg = prev.replaced
    /\ call.arg # prev.ret
    /\ call.at <= VERIFICATION_CODE_EXPIRY
    /\ call.before.verificationCodeExpiry > VERIFICATION_CODE_EXPIRY
    /\ call.ret.message = InvalidCode

\* C30: when canRequestVerificationCode denies, the minutes it reports are
\* (15 minutes - elapsed) / 1 minute rounded up, elapsed being the clock
\* minus lastVerificationAttempt: the least whole number of minutes that
\* covers the rest of the cooldown, always from 1 to 15.
C30_RemainingMinutesRoundedUp ==
    /\ call.method = "canRequestVerificationCode"
    /\ ~call.ret.threw
    /\ ~call.ret.canRequest
    => LET elapsed == call.at - call.before.lastVerificationAttempt
           rest == 15 * 60000 - elapsed
           minutes == call.ret.remainingTime
       IN  /\ elapsed >= 0
           /\ minutes * 60000 >= rest
           /\ (minutes - 1) * 60000 < rest
           /\ minutes \in 1..15

\* A denial with a single millisecond of the cooldown left reports 1 minute
C30_Witness ==
    /\ call.method = "canRequestVerificationCode"
    /\ ~call.ret.threw
    /\ ~call.ret.canRequest
    /\ call.at - call.before.lastVerificationAttempt = 15 * 60000 - 1
    /\ call.ret.remainingTime = 1

\* A denial right after the attempt reports the full 15 minutes
C30_WitnessFull ==
    /\ call.method = "canRequestVerificationCode"
    /\ ~call.ret.canRequest
    /\ call.at = call.before.lastVerificationAttempt
    /\ call.ret.remainingTime = 15

\* A denial part of the way through a minute rounds up
C30_WitnessPartMinute ==
    /\ call.method = "canRequestVerificationCode"
    /\ ~call.ret.canRequest
    /\ call.ret.remainingTime \in 2..14
    /\ (15 * 60000 - (call.at - call.before.lastVerificationAttempt))
          % 60000 # 0

\* C37: every rejection by the per-caller limiter carries a retryAfter of at
\* least 1 minute and at most ceil(windowMs / 60000) minutes, for every
\* request time up to and including the window's reset time.
C37_RetryAfterAtLeastOneMinute ==
    served.last.status = 429 =>
        /\ served.last.retryAfter >= 1
        /\ served.last.retryAfter <= MathCeilDiv(windowMs, 60000)

\* A request at the very reset time of a full window is rejected with a
\* retryAfter of 0 minutes
C37_RejectedAtResetTime ==
    /\ served.last.status = 429
    /\ served.last.retryAfter = 0
    /\ requests[served.last.key].resetTime = now

\* C36: a request-code call is denied by the per-account throttle only if
\* at least 5 codes were generated for the account within the 15 minutes
\* before the call: when the run of 5 generations that filled the counter
\* began more than 15 minutes ago, the call is not denied.
C36_DenialCountsRecentGenerationsOnly ==
    [][\A p \in PhoneNumbers :
         (/\ gens[p].count = maxAttempts
          /\ now - gens[p].firstAt > cooldownPeriod
          /\ RequestCode(p))
         => response'.status # 429]_vars

\* A request denied although the first of the 5 counted generations is
\* older than 15 minutes
C36_DeniedOnOldGenerations ==
    /\ response.op = "request"
    /\ response.status = 429
    /\ response.error = "RATE_LIMIT_EXCEEDED"
    /\ \E p \in PhoneNumbers :
          /\ response.phoneNumber = p
          /\ gens[p].count = maxAttempts
          /\ now - gens[p].firstAt > cooldownPeriod
          /\ now - gens[p].lastAt < cooldownPeriod

\* C35: no operation issues a credential for an account whose isActive is
\* false at the time of issuance: register, login, confirm-code and
\* refresh-token each sign a credential only for an account the store holds
\* as active.
C35_CredentialOnlyForActiveAccount ==
    [][(response'.token # NoToken /\ IssuingCall)
         => \E u \in users' : /\ u._id = response'.token.userId
                              /\ u.isActive]_vars

\* confirm-code has answered 200 with a credential for a disabled account
C35_ConfirmIssuedForDisabledAccount ==
    /\ response.op = "confirm"
    /\ response.status = 200
    /\ response.token # NoToken
    /\ \E u \in users : /\ u._id = response.token.userId
                         /\ ~u.isActive
                         /\ u.isPhoneVerified

\* C32: under concurrent request-code calls on one account no increment of
\* verificationAttempts is lost: a request-code call that did not reset the
\* counter and whose save succeeds leaves the stored counter one above what
\* the store held just before that save.
C32_NoIncrementLost ==
    [][\A i \in Procs : \A u \in users :
         (/\ procs[i].op = "request"
          /\ procs[i].pc = "save"
          /\ ~procs[i].isNew
          /\ procs[i].user.verificationAttempts =
                procs[i].loaded.verificationAttempts + 1
          /\ u._id = procs[i].user._id
          /\ procs'[i].pc = "send"
          /\ requestSave(i, TRUE))
         => \E v \in users' :
               /\ v._id = u._id
               /\ v.verificationAttempts = u.verificationAttempts + 1]_vars

\* Two request-code calls have loaded the same counter value, generated a
\* code each and saved: the stored counter went up by one
C32_TwoGenerationsOneIncrement ==
    \E i, j \in Procs : \E u \in users :
        /\ i # j
        /\ procs[i].op = "request" /\ procs[j].op = "request"
        /\ procs[i].pc \in {"send", "done"} /\ procs[j].pc \in {"send", "done"}
        /\ procs[i].log = <<"find", "canRequest", "generate", "save">>
        /\ Len(procs[j].log) >= 4
        /\ procs[j].log[4] = "save"
        /\ ~procs[i].isNew /\ ~procs[j].isNew
        /\ procs[i].loaded = procs[j].loaded
        /\ u._id = procs[i].user._id
        /\ u.verificationAttempts = procs[i].loaded.verificationAttempts + 1

\* The same with the counter at 4 when both calls loaded it: 6 codes have
\* been generated since the counter was last at 0 and the store says 5
C32_SixGenerationsCounterFive ==
    /\ C32_TwoGenerationsOneIncrement
    /\ \A i \in Procs : procs[i].loaded.verificationAttempts = 4
    /\ \A u \in users : u.verificationAttempts = maxAttempts

\* C33: under concurrent confirm-code calls on one account that present the
\* same correct code, at most one call succeeds: two calls that both answer
\* 200 for one phone number with one candidate did not verify the same
\* generated code.
C33_OneSuccessPerGeneratedCode ==
    \A i, j \in Procs :
        (/\ i # j
         /\ procs[i].op = "confirm" /\ procs[j].op = "confirm"
         /\ procs[i].status = 200 /\ procs[j].status = 200
         /\ procs[i].phoneNumber = procs[j].phoneNumber
         /\ procs[i].candidate = procs[j].candidate)
        => \/ procs[i].loaded.verificationCode
                # procs[j].loaded.verificationCode
           \/ procs[i].loaded.verificationCodeExpiry
                # procs[j].loaded.verificationCodeExpiry

\* Both confirm-code calls have answered 200 on the code of one generation
C33_BothConfirmsSucceeded ==
    /\ \A i \in Procs : /\ procs[i].op = "confirm"
                         /\ procs[i].status = 200
                         /\ procs[i].verified
                         /\ procs[i].candidate = procs[i].loaded.verificationCode
    /\ \A i, j \in Procs : procs[i].loaded = procs[j].loaded
    /\ \A u \in users : u.isPhoneVerified /\ u.verificationCode = NoCode

\* C34: in every reachable state every stored account has
\* 0 <= verificationAttempts <= 5, and the attemptsRemaining a request-code
\* call answers with (5 - verificationAttempts of its document) is between
\* 0 and 4, whether the calls run one after another or in flight together.
C34_AttemptsWithinCap ==
    /\ \A u \in users : u.verificationAttempts \in 0..maxAttempts
    /\ \A i \in Procs :
          (procs[i].op = "request" /\ procs[i].status = 200)
          => (5 - procs[i].user.verificationAttempts) \in 0..4

\* Two request-code calls in flight together have both loaded the counter
\* at 4 and saved: the store holds 5 and a call has answered with
\* attemptsRemaining = 0
C34_Witness ==
    /\ \A u \in users : u.verificationAttempts = maxAttempts
    /\ \A i \in Procs : /\ procs[i].op = "request"
                         /\ procs[i].loaded.verificationAttempts = 4
                         /\ procs[i].pc \in {"send", "done"}
    /\ \E i \in Procs : /\ procs[i].status = 200
                         /\ 5 - procs[i].user.verificationAttempts = 0

\* A request-code call made once the cooldown has elapsed found the counter
\* at 5 and stored 1, after the sweep had cleared the expired code
C34_WitnessAfterCooldown ==
    /\ now = cooldownPeriod
    /\ \E i \in Procs : \E u \in users :
          /\ procs[i].op = "request"
          /\ procs[i].status = 200
          /\ procs[i].loaded.verificationAttempts = maxAttempts
          /\ procs[i].loaded.verificationCode = NoCode
          /\ u._id = procs[i].user._id
          /\ u.verificationAttempts = 1
          /\ 5 - procs[i].user.verificationAttempts = 4

\* The same bounds over any number of calls made one after another, with
\* the sweep and the TTL monitor (Spec)
C34_SequentialAttemptsWithinCap ==
    /\ \A u \in users : u.verificationAttempts \in 0..maxAttempts
    /\ (response.op = "request" /\ response.status = 200)
         => response.attemptsRemaining \in 0..4

\* C31: under request-code and confirm-code calls made one after another on
\* one account, at most 5 codes are generated and sent for it in any
\* 15-minute interval: of any 6 codes sent in a row, the last is sent at
\* least 15 minutes after the first.
C31_AtMostFiveCodesPerInterval ==
    \A p \in PhoneNumbers :
        Len(sent[p]) = maxAttempts + 1
        => sent[p][maxAttempts + 1] - sent[p][1] >= cooldownPeriod

\* A 6th code has been sent within 15 minutes of the 1st, after a confirm
\* in between had set the counter back to 0
C31_SixthCodeWithinInterval ==
    /\ response.op = "request"
    /\ response.status = 200
    /\ response.attemptsBefore < maxAttempts
    /\ \E p \in PhoneNumbers :
          /\ response.phoneNumber = p
          /\ Len(sent[p]) = maxAttempts + 1
          /\ sent[p][maxAttempts + 1] - sent[p][1] < cooldownPeriod
          /\ gens[p].count < maxAttempts
          /\ \E u \in findByPhoneNumber(p) : u.isPhoneVerified

====
